---- MODULE Spec2Model ----
(***************************************************************************)
(* GeoTransport: the hand-rolled protobuf decoder of src/src/worker.js     *)
(* (PBReader, the GTFS-RT message parsers and parseFeedMessage).           *)
(*                                                                         *)
(* JavaScript numbers are IEEE-754 doubles.  Every number the decoder      *)
(* handles is integer valued, so a number is modelled as a sign and a      *)
(* magnitude held in three 24-bit limbs (TLC's integers are 32 bits wide), *)
(* rounded to 53 significant bits exactly where the double would round.    *)
(* The 32-bit bitwise operators of JavaScript work on sets of bit indices. *)
(***************************************************************************)
EXTENDS Integers, Sequences, FiniteSets, TLC

\* ------------------------------------------------------------------------
\* JavaScript Number, restricted to integer values
\* ------------------------------------------------------------------------
Limb == 4096 * 4096

Pow2(i) == 2 ^ i

Mag(l0, l1, l2) == [l0 |-> l0, l1 |-> l1, l2 |-> l2]

JSNum(neg, l0, l1, l2) ==
  [neg |-> neg /\ (l0 + l1 + l2 > 0), l0 |-> l0, l1 |-> l1, l2 |-> l2]

Zero == JSNum(FALSE, 0, 0, 0)

\* A small TLC integer as a JavaScript number (|i| < 2^24).
Num(i) == IF i < 0 THEN JSNum(TRUE, -i, 0, 0) ELSE JSNum(FALSE, i, 0, 0)

One == Num(1)

IsSmall(n) == n.l1 = 0 /\ n.l2 = 0

\* The TLC integer of a small number.
Int32Of(n) == IF n.neg THEN -n.l0 ELSE n.l0

MagLess(a, b) ==
  \/ a.l2 < b.l2
  \/ a.l2 = b.l2 /\ a.l1 < b.l1
  \/ a.l2 = b.l2 /\ a.l1 = b.l1 /\ a.l0 < b.l0

MagIsZero(a) == a.l0 = 0 /\ a.l1 = 0 /\ a.l2 = 0

MagAdd(a, b) ==
  Mag((a.l0 + b.l0) % Limb,
      (a.l1 + b.l1 + ((a.l0 + b.l0) \div Limb)) % Limb,
      a.l2 + b.l2 + ((a.l1 + b.l1 + ((a.l0 + b.l0) \div Limb)) \div Limb))

\* a - b for magnitudes with b <= a.
MagSub(a, b) ==
  LET c0 == IF a.l0 < b.l0 THEN 1 ELSE 0
      c1 == IF a.l1 - c0 < b.l1 THEN 1 ELSE 0
  IN  Mag(a.l0 - b.l0 + c0 * Limb, a.l1 - b.l1 - c0 + c1 * Limb, a.l2 - b.l2 - c1)

\* Number of significant bits of a limb value.
RECURSIVE BitLen(_)
BitLen(x) == IF x = 0 THEN 0 ELSE 1 + BitLen(x \div 2)

\* The low limb cut to a multiple of unit, rounded to nearest, ties to even.
RoundLimb(x, unit) ==
  LET q    == x \div unit
      rest == x % unit
  IN  IF 2 * rest > unit \/ (2 * rest = unit /\ q % 2 = 1) THEN (q + 1) * unit ELSE q * unit

\* Round a magnitude to the nearest double: 53 significant bits.  Values
\* below 2^53 are exact; above, the low BitLen(l2) - 5 bits are cut.
Round53(m) ==
  IF m.l2 < 32 THEN m
  ELSE MagAdd(Mag(0, m.l1, m.l2), Mag(RoundLimb(m.l0, Pow2(BitLen(m.l2) - 5)), 0, 0))

MkNum(neg, m) == JSNum(neg, m.l0, m.l1, m.l2)

Signed(neg, m) == MkNum(neg, Round53(m))

\* a + b in double arithmetic.
NumAdd(a, b) ==
  Signed(IF a.neg = b.neg THEN a.neg ELSE IF MagLess(a, b) THEN b.neg ELSE a.neg,
         IF a.neg = b.neg THEN MagAdd(a, b)
         ELSE IF MagLess(a, b) THEN MagSub(b, a) ELSE MagSub(a, b))

NumLess(a, b) ==
  IF a.neg /\ ~b.neg THEN TRUE
  ELSE IF ~a.neg /\ b.neg THEN FALSE
  ELSE IF a.neg THEN MagLess(b, a)
  ELSE MagLess(a, b)

NumGE(a, b) == ~NumLess(a, b)
NumGT(a, b) == NumLess(b, a)

Two64 == Mag(0, 0, 65536)
Two32 == Mag(0, 256, 0)

\* ToUint32(n): n modulo 2^32, as a magnitude.
Low32(n) == Mag(n.l0, n.l1 % 256, 0)
ToUint32(n) ==
  IF n.neg /\ ~MagIsZero(Low32(n)) THEN MagSub(Two32, Low32(n)) ELSE Low32(n)

\* A 32-bit pattern read as two's complement.
AsInt32(u) == IF u.l1 >= 128 THEN MkNum(TRUE, MagSub(Two32, u)) ELSE MkNum(FALSE, u)

\* x | 0
ToInt32(n) == AsInt32(ToUint32(n))

\* ------------------------------------------------------------------------
\* 32-bit patterns as sets of bit indices (the operands of <<, >>> and |)
\* ------------------------------------------------------------------------
Bits(x) == {i \in 0..7 : (x \div Pow2(i)) % 2 = 1}

RECURSIVE BitsValue(_)
BitsValue(S) ==
  IF S = {} THEN 0
  ELSE LET top == CHOOSE j \in S : TRUE IN Pow2(top) + BitsValue(S \ {top})

\* x << s and x >>> s on 32-bit patterns (JavaScript takes s modulo 32).
Shl(S, s) == {i + (s % 32) : i \in S} \cap (0..31)
Shr(S, s) == {i - (s % 32) : i \in S} \cap (0..31)

\* The magnitude whose set bits are S (S within 0..71).
MagOfBits(S) ==
  Mag(BitsValue({i \in S : i < 24}),
      BitsValue({i - 24 : i \in {j \in S : j >= 24 /\ j < 48}}),
      BitsValue({i - 48 : i \in {j \in S : j >= 48}}))

\* (lo >>> 0) + hi * 4294967296, lo and hi being int32 patterns: hi counts
\* as negative when its bit 31 is set, lo is taken unsigned.
LoHiMag(lo, hi) == MagOfBits(lo \cup {i + 32 : i \in hi})
LoHiNumber(lo, hi) ==
  IF 31 \in hi THEN Signed(TRUE, MagSub(Two64, LoHiMag(lo, hi)))
  ELSE Signed(FALSE, LoHiMag(lo, hi))

\* ------------------------------------------------------------------------
\* Uint8Array values and the reader (class PBReader)
\* ------------------------------------------------------------------------
\* A Uint8Array is a window of byteLength bytes at byteOffset of its buffer.
Uint8Array(buffer, byteOffset, byteLength) ==
  [buffer |-> buffer, byteOffset |-> byteOffset, byteLength |-> byteLength]

\* The bytes visible through a Uint8Array.
ViewBytes(a) == SubSeq(a.buffer, a.byteOffset + 1, a.byteOffset + a.byteLength)

\* new Uint8Array(arrayBuffer)
OfBuffer(bs) == Uint8Array(bs, 0, Len(bs))

\* constructor(input): the reader owns a flat copy of exactly the bytes of
\* the input window; p = 0, end = b.length.
PBReader(input) ==
  [b |-> SubSeq(input.buffer, input.byteOffset + 1, input.byteOffset + input.byteLength),
   p |-> Zero,
   end |-> input.byteLength,
   cls |-> "worker.js"]

\* new PBReader(input) in the file cls: "worker.js", or the vendor variant
\* "part_005", whose class differs in skip() only.
PBReaderOf(cls, input) == [PBReader(input) EXCEPT !.cls = cls]

\* get done()
done(r) == NumGE(r.p, Num(r.end))

\* this.b[this.p]: an index outside 0..length-1 yields undefined, which the
\* masks (b & 0x7f, b & 0x80) turn into 0.
ByteAt(r) ==
  IF IsSmall(r.p) /\ ~r.p.neg /\ r.p.l0 < Len(r.b) THEN r.b[r.p.l0 + 1] ELSE 0

NoMsg == [what |-> "", at |-> Zero, need |-> Zero]
Msg(what, at, need) == [what |-> what, at |-> at, need |-> need]

\* The outcome of a reader method: the reader afterwards, and either the
\* value returned or the Error thrown.
Ok(r, v) == [st |-> "ok", r |-> r, v |-> v, msg |-> NoMsg]
Throw(r, m) == [st |-> "throw", r |-> r, v |-> Zero, msg |-> m]

\* this.p += n
Advance(r, n) == [r EXCEPT !.p = NumAdd(@, n)]

\* varint(): at most 10 bytes, 7 value bits each, split over lo and hi.
VarintLo(lo, x, s) == IF s < 32 THEN lo \cup Shl(Bits(x) \cap (0..6), s) ELSE lo
VarintHi(hi, x, s) ==
  IF s < 28 THEN hi
  ELSE IF s < 32 THEN hi \cup Shr(Bits(x) \cap (0..6), 32 - s)
  ELSE hi \cup Shl(Bits(x) \cap (0..6), s - 32)

RECURSIVE VarintLoop(_, _, _, _, _)
\* The byte x has been read and the cursor moved.
VarintByte(r, x, lo, hi, s, i) ==
  IF x < 128 THEN Ok(r, LoHiNumber(lo, hi)) ELSE VarintLoop(r, lo, hi, s + 7, i + 1)

VarintLoop(r, lo, hi, s, i) ==
  IF i >= 10 THEN Ok(r, LoHiNumber(lo, hi))
  ELSE IF NumGE(r.p, Num(r.end))
  THEN Throw(r, Msg("varint: unexpected EOF", r.p, Zero))
  ELSE VarintByte(Advance(r, One), ByteAt(r),
                  VarintLo(lo, ByteAt(r), s), VarintHi(hi, ByteAt(r), s), s, i)

varint(r) == VarintLoop(r, {}, {}, 0, 0)

\* The value of a successful outcome mapped; a throw passed on.
ToInt32Of(res) == IF res.st = "ok" THEN Ok(res.r, ToInt32(res.v)) ELSE res

\* sint32(): this.varint() | 0
sint32(r) == ToInt32Of(varint(r))

\* DataView.getFloat32/getFloat64(p, true) throw a RangeError for an offset
\* below 0.  The value is kept as its little-endian byte pattern.
FixedRead(r, n, what) ==
  IF NumGT(NumAdd(r.p, Num(n)), Num(r.end)) THEN Throw(r, Msg(what, r.p, Zero))
  ELSE IF r.p.neg THEN Throw(r, Msg("RangeError", r.p, Zero))
  ELSE Ok(Advance(r, Num(n)), SubSeq(r.b, Int32Of(r.p) + 1, Int32Of(r.p) + n))

float(r) == FixedRead(r, 4, "float: EOF")
double(r) == FixedRead(r, 8, "double: EOF")

\* The relative index TypedArray.prototype.slice makes of an argument.
RelIndex(n, len) ==
  IF n.neg THEN (IF IsSmall(n) /\ n.l0 <= len THEN len - n.l0 ELSE 0)
  ELSE (IF IsSmall(n) /\ n.l0 <= len THEN n.l0 ELSE len)

\* this.b.slice(start, end): an own copy of the bytes start..end-1.
OwnCopy(bs) == Uint8Array(bs, 0, Len(bs))
SliceFrom(b, k, final) == OwnCopy(IF final > k THEN SubSeq(b, k + 1, final) ELSE <<>>)
Slice(b, start, end) == SliceFrom(b, RelIndex(start, Len(b)), RelIndex(end, Len(b)))

\* bytes() without its length check: a shortened slice instead of an Error.
BytesClamped(r, len, to) == Ok([r EXCEPT !.p = to], Slice(r.b, r.p, to))

\* bytes(): a varint length, then a copy of that many bytes.
BytesTo(r, len, to) ==
  IF NumGT(to, Num(r.end)) THEN Throw(r, Msg("bytes: need", r.p, len))
  ELSE Ok([r EXCEPT !.p = to], Slice(r.b, r.p, to))

BytesOf(res) == IF res.st # "ok" THEN res ELSE BytesTo(res.r, res.v, NumAdd(res.r.p, res.v))

bytes(r) == BytesOf(varint(r))

\* ------------------------------------------------------------------------
\* TextDecoder("utf-8").decode: code points, U+FFFD for every malformed
\* sequence, a leading byte order mark dropped
\* ------------------------------------------------------------------------
\* The decoder's state between bytes: the code point under construction,
\* the continuation bytes needed and seen, and the range the next
\* continuation byte must lie in.
Utf8Start == [cp |-> 0, needed |-> 0, seen |-> 0, lower |-> 128, upper |-> 191]

\* One byte: the code points emitted, the state afterwards, and whether the
\* byte is to be read again (it ended a malformed sequence).
Utf8Byte(d, x) ==
  IF d.needed = 0 THEN
    IF x <= 127 THEN [out |-> <<x>>, d |-> Utf8Start, again |-> FALSE]
    ELSE IF x >= 194 /\ x <= 223
    THEN [out |-> <<>>, d |-> [Utf8Start EXCEPT !.cp = x % 32, !.needed = 1], again |-> FALSE]
    ELSE IF x >= 224 /\ x <= 239
    THEN [out |-> <<>>,
          d |-> [cp |-> x % 16, needed |-> 2, seen |-> 0,
                 lower |-> IF x = 224 THEN 160 ELSE 128,
                 upper |-> IF x = 237 THEN 159 ELSE 191],
          again |-> FALSE]
    ELSE IF x >= 240 /\ x <= 244
    THEN [out |-> <<>>,
          d |-> [cp |-> x % 8, needed |-> 3, seen |-> 0,
                 lower |-> IF x = 240 THEN 144 ELSE 128,
                 upper |-> IF x = 244 THEN 143 ELSE 191],
          again |-> FALSE]
    ELSE [out |-> <<65533>>, d |-> Utf8Start, again |-> FALSE]
  ELSE IF x < d.lower \/ x > d.upper
  THEN [out |-> <<65533>>, d |-> Utf8Start, again |-> TRUE]
  ELSE IF d.seen + 1 = d.needed
  THEN [out |-> <<d.cp * 64 + (x % 64)>>, d |-> Utf8Start, again |-> FALSE]
  ELSE [out |-> <<>>,
        d |-> [cp |-> d.cp * 64 + (x % 64), needed |-> d.needed, seen |-> d.seen + 1,
               lower |-> 128, upper |-> 191],
        again |-> FALSE]

RECURSIVE Utf8Loop(_, _, _, _)
Utf8Next(bs, i, acc, step) ==
  Utf8Loop(bs, IF step.again THEN i ELSE i + 1, step.d, acc \o step.out)

Utf8Loop(bs, i, d, acc) ==
  IF i > Len(bs) THEN (IF d.needed # 0 THEN Append(acc, 65533) ELSE acc)
  ELSE Utf8Next(bs, i, acc, Utf8Byte(d, bs[i]))

StripBOM(cps) == IF Len(cps) > 0 /\ cps[1] = 65279 THEN Tail(cps) ELSE cps

decode(bs) == StripBOM(Utf8Loop(bs, 1, Utf8Start, <<>>))

\* ------------------------------------------------------------------------
\* JavaScript values held in the decoded objects
\* ------------------------------------------------------------------------
Undefined == [t |-> "undefined"]
Value(t, v) == [t |-> t, v |-> v]
VObj(o)   == Value("object", o)
VArray(a) == Value("array", a)

\* An object is a function from its own property names to values.
EmptyObj == [k \in {} |-> Undefined]
Has(o, k) == k \in DOMAIN o
Get(o, k) == IF k \in DOMAIN o THEN o[k] ELSE Undefined
Put(o, k, v) == [j \in DOMAIN o \cup {k} |-> IF j = k THEN v ELSE o[j]]

\* str(): _dec.decode(this.bytes())
StrOf(res) == IF res.st = "ok" THEN Ok(res.r, decode(ViewBytes(res.v))) ELSE res
str(r) == StrOf(bytes(r))

\* sub(): new PBReader(this.bytes()), of the class of this reader
SubOf(res) == IF res.st = "ok" THEN Ok(res.r, PBReaderOf(res.r.cls, res.v)) ELSE res
sub(r) == SubOf(bytes(r))

\* tag(): [t >>> 3, t & 7]
TagPair(u) == <<(u.l0 \div 8) + u.l1 * 2097152, u.l0 % 8>>
TagOf(res) == IF res.st = "ok" THEN Ok(res.r, TagPair(ToUint32(res.v))) ELSE res
tag(r) == TagOf(varint(r))

\* The fixed-width branches of skip(wire), one byte short.
SkipFixedShort(r, n, what) ==
  IF NumGT(NumAdd(r.p, Num(n)), Num(r.end)) THEN Throw(r, Msg(what, Zero, Zero))
  ELSE Ok(Advance(r, Num(n - 1)), Zero)

\* The fixed-width branches of skip(wire): a bounds check, then p += n.
SkipFixed(r, n, what) ==
  IF NumGT(NumAdd(r.p, Num(n)), Num(r.end)) THEN Throw(r, Msg(what, Zero, Zero))
  ELSE Ok(Advance(r, Num(n)), Zero)

\* skip(wire) without its final throw.
skipLenient(r, wire) ==
  IF wire = 0 THEN varint(r)
  ELSE IF wire = 1 THEN SkipFixed(r, 8, "skip64 EOF")
  ELSE IF wire = 2 THEN bytes(r)
  ELSE IF wire = 5 THEN SkipFixed(r, 4, "skip32 EOF")
  ELSE Ok(r, Zero)

\* skip(wire)
skip(r, wire) ==
  IF wire = 0 THEN varint(r)
  ELSE IF wire = 1 THEN SkipFixed(r, 8, "skip64 EOF")
  ELSE IF wire = 2 THEN bytes(r)
  ELSE IF wire = 5 THEN SkipFixed(r, 4, "skip32 EOF")
  ELSE Throw(r, Msg("Unknown wire type", r.p, Num(wire)))

\* skip(wire) of the vendor variant, where it differs: the fixed-width
\* branches add to the cursor without a bounds check, and the final throw
\* has its own message. Its branches for wire types 0 and 2 are those of
\* skip.
skipVendor(r, wire) ==
  IF wire = 1 THEN Ok(Advance(r, Num(8)), Zero)
  ELSE IF wire = 5 THEN Ok(Advance(r, Num(4)), Zero)
  ELSE Throw(r, Msg("unknown wire", r.p, Num(wire)))

\* r.skip(w): the method of the reader's class.
SkipOf(r, w) ==
  IF r.cls = "part_005" /\ w # 0 /\ w # 2 THEN skipVendor(r, w) ELSE skip(r, w)

W_VARINT == 0
W_64 == 1
W_LEN == 2
W_32 == 5

\* The outcome of skip as readIf returns it: undefined.
SkippedValue(res) == IF res.st = "ok" THEN Ok(res.r, Undefined) ELSE res

\* readIf without its comparison of wire types: fn is always applied.
readIfAlways(r, w, expected, fn) == fn

\* readIf(r, w, expected, fn): the value fn reads, or undefined after a skip.
\* fn is given as the outcome its call has at r.
readIf(r, w, expected, fn) ==
  IF w = expected THEN fn ELSE SkippedValue(SkipOf(r, w))

\* ------------------------------------------------------------------------
\* GTFS-RT parsers
\* ------------------------------------------------------------------------
\* The typed readers handed to readIf.
AsValue(t, res) == IF res.st = "ok" THEN Ok(res.r, Value(t, res.v)) ELSE res
AsBool(res) == IF res.st = "ok" THEN Ok(res.r, Value("boolean", res.v # Zero)) ELSE res

ReadStr(r) == AsValue("string", str(r))
\* () => r.varint() || undefined: a zero read as no value.
NonZero(res) == IF res.st = "ok" /\ res.v.v = Zero THEN Ok(res.r, Undefined) ELSE res
ReadVarintNonZero(r) == NonZero(AsValue("number", varint(r)))

ReadVarint(r) == AsValue("number", varint(r))
ReadSint32(r) == AsValue("number", sint32(r))
ReadFloat(r) == AsValue("float", float(r))
ReadDouble(r) == AsValue("float", double(r))
\* !!r.varint()
ReadBool(r) == AsBool(varint(r))

\* A call that never returns: the loop of a parser is back at a cursor it
\* has been at, over bytes that do not change.
Hang(r) == [st |-> "hang", r |-> r, v |-> Zero, msg |-> NoMsg]

\* o.k = <read> || o.k: a falsy value read is replaced like undefined.
Falsy(v) ==
  \/ v.t = "undefined"
  \/ v.t = "number" /\ v.v = Zero
  \/ v.t = "boolean" /\ v.v = FALSE
  \/ v.t = "string" /\ v.v = <<>>
  \/ v.t = "float" /\ \A i \in 1..Len(v.v) : v.v[i] = 0

AssignTruthy(o, k, res) ==
  IF res.st # "ok" THEN res
  ELSE Ok(res.r, Put(o, k, IF Falsy(res.v) THEN Get(o, k) ELSE res.v))

\* o.k = <read> ?? o.k
Assign(o, k, res) ==
  IF res.st # "ok" THEN res
  ELSE Ok(res.r, Put(o, k, IF res.v.t = "undefined" THEN Get(o, k) ELSE res.v))

\* else r.skip(w)
Skipped(o, res) == IF res.st # "ok" THEN res ELSE Ok(res.r, o)

RECURSIVE ParseLoop(_, _, _, _)

\* parseX(r.sub()): the nested message of the length-delimited field at r.
\* The parent's reader has moved past the field whatever the nested parse
\* does.
SubResult(parent, m) == IF m.st = "ok" THEN Ok(parent, VObj(m.v)) ELSE [m EXCEPT !.r = parent]
SubParse(kind, init, res) ==
  IF res.st # "ok" THEN res ELSE SubResult(res.r, ParseLoop(kind, res.v, init, {}))
ReadSub(kind, init, r) == SubParse(kind, init, sub(r))

FieldTripDescriptor(f, w, r, o) ==
  IF f = 1 THEN Assign(o, "tripId", readIf(r, w, W_LEN, ReadStr(r)))
  ELSE IF f = 2 THEN Assign(o, "startTime", readIf(r, w, W_LEN, ReadStr(r)))
  ELSE IF f = 3 THEN Assign(o, "startDate", readIf(r, w, W_LEN, ReadStr(r)))
  ELSE IF f = 4 THEN Assign(o, "scheduleRelationship", readIf(r, w, W_VARINT, ReadVarint(r)))
  ELSE IF f = 5 THEN Assign(o, "routeId", readIf(r, w, W_LEN, ReadStr(r)))
  ELSE IF f = 6 THEN Assign(o, "directionId", readIf(r, w, W_VARINT, ReadVarint(r)))
  ELSE Skipped(o, SkipOf(r, w))

FieldVehicleDescriptor(f, w, r, o) ==
  IF f = 1 THEN Assign(o, "id", readIf(r, w, W_LEN, ReadStr(r)))
  ELSE IF f = 2 THEN Assign(o, "label", readIf(r, w, W_LEN, ReadStr(r)))
  ELSE IF f = 3 THEN Assign(o, "licensePlate", readIf(r, w, W_LEN, ReadStr(r)))
  ELSE Skipped(o, SkipOf(r, w))

FieldStopTimeEvent(f, w, r, o) ==
  IF f = 1 THEN Assign(o, "delay", readIf(r, w, W_VARINT, ReadSint32(r)))
  ELSE IF f = 2 THEN Assign(o, "time", readIf(r, w, W_VARINT, ReadVarint(r)))
  ELSE IF f = 3 THEN Assign(o, "uncertainty", readIf(r, w, W_VARINT, ReadSint32(r)))
  ELSE Skipped(o, SkipOf(r, w))

ReadStopTimeEvent(r) == ReadSub("StopTimeEvent", EmptyObj, r)

FieldStopTimeUpdate(f, w, r, o) ==
  IF f = 1 THEN Assign(o, "stopSequence", readIf(r, w, W_VARINT, ReadVarint(r)))
  ELSE IF f = 2 THEN Assign(o, "arrival", readIf(r, w, W_LEN, ReadStopTimeEvent(r)))
  ELSE IF f = 3 THEN Assign(o, "departure", readIf(r, w, W_LEN, ReadStopTimeEvent(r)))
  ELSE IF f = 4 THEN Assign(o, "stopId", readIf(r, w, W_LEN, ReadStr(r)))
  ELSE IF f = 5 THEN Assign(o, "scheduleRelationship", readIf(r, w, W_VARINT, ReadVarint(r)))
  ELSE Skipped(o, SkipOf(r, w))

ReadTripDescriptor(r) == ReadSub("TripDescriptor", EmptyObj, r)
ReadVehicleDescriptor(r) == ReadSub("VehicleDescriptor", EmptyObj, r)
ReadStopTimeUpdate(r) == ReadSub("StopTimeUpdate", EmptyObj, r)

\* const s = readIf(...); if (s) o.stopTimeUpdate.push(s);
PushStopTimeUpdate(o, res) ==
  IF res.st # "ok" THEN res
  ELSE IF res.v.t = "undefined" THEN Ok(res.r, o)
  ELSE Ok(res.r, [o EXCEPT !["stopTimeUpdate"] = VArray(Append(@.v, res.v.v))])

FieldTripUpdate(f, w, r, o) ==
  IF f = 1 THEN Assign(o, "trip", readIf(r, w, W_LEN, ReadTripDescriptor(r)))
  ELSE IF f = 2 THEN PushStopTimeUpdate(o, readIf(r, w, W_LEN, ReadStopTimeUpdate(r)))
  ELSE IF f = 3 THEN Assign(o, "vehicle", readIf(r, w, W_LEN, ReadVehicleDescriptor(r)))
  ELSE IF f = 4 THEN Assign(o, "timestamp", readIf(r, w, W_VARINT, ReadVarint(r)))
  ELSE IF f = 5 THEN Assign(o, "delay", readIf(r, w, W_VARINT, ReadSint32(r)))
  ELSE Skipped(o, SkipOf(r, w))

FieldPosition(f, w, r, o) ==
  IF f = 1 THEN Assign(o, "latitude", readIf(r, w, W_32, ReadFloat(r)))
  ELSE IF f = 2 THEN Assign(o, "longitude", readIf(r, w, W_32, ReadFloat(r)))
  ELSE IF f = 3 THEN Assign(o, "bearing", readIf(r, w, W_32, ReadFloat(r)))
  ELSE IF f = 4 THEN Assign(o, "odometer", readIf(r, w, W_64, ReadDouble(r)))
  ELSE IF f = 5 THEN Assign(o, "speed", readIf(r, w, W_32, ReadFloat(r)))
  ELSE Skipped(o, SkipOf(r, w))

ReadPosition(r) == ReadSub("Position", EmptyObj, r)

FieldVehiclePosition(f, w, r, o) ==
  IF f = 1 THEN Assign(o, "trip", readIf(r, w, W_LEN, ReadTripDescriptor(r)))
  ELSE IF f = 2 THEN Assign(o, "vehicle", readIf(r, w, W_LEN, ReadVehicleDescriptor(r)))
  ELSE IF f = 3 THEN Assign(o, "position", readIf(r, w, W_LEN, ReadPosition(r)))
  ELSE IF f = 4 THEN Assign(o, "currentStopSeq", readIf(r, w, W_VARINT, ReadVarint(r)))
  ELSE IF f = 5 THEN Assign(o, "stopId", readIf(r, w, W_LEN, ReadStr(r)))
  ELSE IF f = 6 THEN Assign(o, "currentStatus", readIf(r, w, W_VARINT, ReadVarint(r)))
  ELSE IF f = 7 THEN Assign(o, "timestamp", readIf(r, w, W_VARINT, ReadVarint(r)))
  ELSE IF f = 8 THEN Assign(o, "congestionLevel", readIf(r, w, W_VARINT, ReadVarint(r)))
  ELSE IF f = 9 THEN Assign(o, "occupancyStatus", readIf(r, w, W_VARINT, ReadVarint(r)))
  ELSE Skipped(o, SkipOf(r, w))

\* The vendor variant with field 2 read as the vehicle descriptor, as in the
\* standard numbering, and field 8 as the position.
FieldVehiclePositionSwapped(f, w, r, o) ==
  IF f = 1 THEN Assign(o, "trip", readIf(r, w, W_LEN, ReadTripDescriptor(r)))
  ELSE IF f = 2 THEN Assign(o, "vehicle", readIf(r, w, W_LEN, ReadVehicleDescriptor(r)))
  ELSE IF f = 5 THEN Assign(o, "timestamp", readIf(r, w, W_VARINT, ReadVarint(r)))
  ELSE IF f = 8 THEN Assign(o, "position", readIf(r, w, W_LEN, ReadPosition(r)))
  ELSE Skipped(o, SkipOf(r, w))

\* parseVehiclePosition of the vendor variant: the field numbers of the
\* De Lijn feed.
FieldVehiclePositionVendor(f, w, r, o) ==
  IF f = 1 THEN Assign(o, "trip", readIf(r, w, W_LEN, ReadTripDescriptor(r)))
  ELSE IF f = 2 THEN Assign(o, "position", readIf(r, w, W_LEN, ReadPosition(r)))
  ELSE IF f = 5 THEN Assign(o, "timestamp", readIf(r, w, W_VARINT, ReadVarint(r)))
  ELSE IF f = 8 THEN Assign(o, "vehicle", readIf(r, w, W_LEN, ReadVehicleDescriptor(r)))
  ELSE Skipped(o, SkipOf(r, w))

TripUpdateInit == [stopTimeUpdate |-> VArray(<<>>)]
ReadTripUpdate(r) == ReadSub("TripUpdate", TripUpdateInit, r)
ReadVehiclePosition(r) == ReadSub("VehiclePosition", EmptyObj, r)

FieldFeedEntity(f, w, r, o) ==
  IF f = 1 THEN Assign(o, "id", readIf(r, w, W_LEN, ReadStr(r)))
  ELSE IF f = 2 THEN Assign(o, "isDeleted", readIf(r, w, W_VARINT, ReadBool(r)))
  ELSE IF f = 3 THEN Assign(o, "tripUpdate", readIf(r, w, W_LEN, ReadTripUpdate(r)))
  ELSE IF f = 4 THEN Assign(o, "vehicle", readIf(r, w, W_LEN, ReadVehiclePosition(r)))
  ELSE Skipped(o, SkipOf(r, w))

\* The header loop of parseFeedMessage.
FieldFeedHeader(f, w, r, o) ==
  IF f = 1 THEN Assign(o, "gtfsRealtimeVersion", readIf(r, w, W_LEN, ReadStr(r)))
  ELSE IF f = 2 THEN Assign(o, "incrementality", readIf(r, w, W_VARINT, ReadVarint(r)))
  ELSE IF f = 3 THEN Assign(o, "timestamp", readIf(r, w, W_VARINT, ReadVarint(r)))
  ELSE Skipped(o, SkipOf(r, w))

Field(kind, f, w, r, o) ==
  CASE kind = "TripDescriptor" -> FieldTripDescriptor(f, w, r, o)
    [] kind = "VehicleDescriptor" -> FieldVehicleDescriptor(f, w, r, o)
    [] kind = "StopTimeEvent" -> FieldStopTimeEvent(f, w, r, o)
    [] kind = "StopTimeUpdate" -> FieldStopTimeUpdate(f, w, r, o)
    [] kind = "TripUpdate" -> FieldTripUpdate(f, w, r, o)
    [] kind = "Position" -> FieldPosition(f, w, r, o)
    [] kind = "VehiclePosition" /\ r.cls = "worker.js" -> FieldVehiclePosition(f, w, r, o)
    [] kind = "VehiclePosition" /\ r.cls = "part_005" -> FieldVehiclePositionVendor(f, w, r, o)
    [] kind = "FeedEntity" -> FieldFeedEntity(f, w, r, o)
    [] kind = "FeedHeader" -> FieldFeedHeader(f, w, r, o)

\* while (!r.done) { const [f, w] = r.tag(); ... } return o;
AfterField(kind, seen, res) ==
  IF res.st # "ok" THEN res ELSE ParseLoop(kind, res.r, res.v, seen)

AfterTag(kind, o, seen, res) ==
  IF res.st # "ok" THEN res
  ELSE AfterField(kind, seen, Field(kind, res.v[1], res.v[2], res.r, o))

ParseLoop(kind, r, o, seen) ==
  IF done(r) THEN Ok(r, o)
  ELSE IF r.p \in seen THEN Hang(r)
  ELSE AfterTag(kind, o, seen \cup {r.p}, tag(r))

parseTripDescriptor(r) == ParseLoop("TripDescriptor", r, EmptyObj, {})
parseVehicleDescriptor(r) == ParseLoop("VehicleDescriptor", r, EmptyObj, {})
parseStopTimeEvent(r) == ParseLoop("StopTimeEvent", r, EmptyObj, {})
parseStopTimeUpdate(r) == ParseLoop("StopTimeUpdate", r, EmptyObj, {})
parseTripUpdate(r) == ParseLoop("TripUpdate", r, TripUpdateInit, {})
parsePosition(r) == ParseLoop("Position", r, EmptyObj, {})
parseVehiclePosition(r) == ParseLoop("VehiclePosition", r, EmptyObj, {})
parseFeedEntity(r) == ParseLoop("FeedEntity", r, EmptyObj, {})

\* ------------------------------------------------------------------------
\* parseFeedMessage
\* ------------------------------------------------------------------------
\* const feed = { header: {}, entity: [] }; let entityErrors = 0;
FeedInit == [header |-> EmptyObj, entity |-> <<>>]

\* { _parseError: e.message }
Marker(m) == [k \in {"_parseError"} |-> m]
IsMarker(e) == "_parseError" \in DOMAIN e

\* The state of the call after a loop iteration: st is "ok" when the loop
\* goes on, "throw" when an Error leaves the call, "hang" when the
\* iteration never ends.
FeedOk(r, feed, n) == [st |-> "ok", r |-> r, feed |-> feed, errors |-> n, msg |-> NoMsg]
FeedStop(st, r, feed, n, m) == [st |-> st, r |-> r, feed |-> feed, errors |-> n, msg |-> m]

\* if (f === 1 && w === W_LEN) { const hr = r.sub(); while (!hr.done) ... }
HeaderParsed(parent, feed, n, m) ==
  IF m.st = "ok" THEN FeedOk(parent, [feed EXCEPT !.header = m.v], n)
  ELSE FeedStop(m.st, parent, feed, n, m.msg)

HeaderOf(res, feed, n) ==
  IF res.st # "ok" THEN FeedStop(res.st, res.r, feed, n, res.msg)
  ELSE HeaderParsed(res.r, feed, n, ParseLoop("FeedHeader", res.v, feed.header, {}))

HeaderField(r, feed, n) == HeaderOf(sub(r), feed, n)

\* The catch block without entityErrors++.
EntityUncounted(parent, feed, n, m) ==
  IF m.st = "hang" THEN FeedStop("hang", parent, feed, n, NoMsg)
  ELSE FeedOk(parent,
              [feed EXCEPT !.entity = Append(@, IF m.st = "ok" THEN m.v ELSE Marker(m.msg))], n)

\* else if (f === 2 && w === W_LEN) { const entityBytes = r.bytes();
\*   try { feed.entity.push(parseFeedEntity(new PBReader(entityBytes))); }
\*   catch (e) { entityErrors++; feed.entity.push({ _parseError: e.message }); } }
EntityParsed(parent, feed, n, m) ==
  IF m.st = "ok" THEN FeedOk(parent, [feed EXCEPT !.entity = Append(@, m.v)], n)
  ELSE IF m.st = "throw"
  THEN FeedOk(parent, [feed EXCEPT !.entity = Append(@, Marker(m.msg))], n + 1)
  ELSE FeedStop("hang", parent, feed, n, NoMsg)

EntityOf(res, feed, n) ==
  IF res.st # "ok" THEN FeedStop(res.st, res.r, feed, n, res.msg)
  ELSE EntityParsed(res.r, feed, n, parseFeedEntity(PBReaderOf(res.r.cls, res.v)))

EntityField(r, feed, n) == EntityOf(bytes(r), feed, n)

\* else r.skip(w)
OtherOf(res, feed, n) ==
  IF res.st = "ok" THEN FeedOk(res.r, feed, n)
  ELSE FeedStop(res.st, res.r, feed, n, res.msg)

OtherField(r, w, feed, n) == OtherOf(SkipOf(r, w), feed, n)

\* One iteration of the loop of parseFeedMessage, the reader not done.
FeedField(res, feed, n) ==
  IF res.st # "ok" THEN FeedStop(res.st, res.r, feed, n, res.msg)
  ELSE IF res.v[1] = 1 /\ res.v[2] = W_LEN THEN HeaderField(res.r, feed, n)
  ELSE IF res.v[1] = 2 /\ res.v[2] = W_LEN THEN EntityField(res.r, feed, n)
  ELSE OtherField(res.r, res.v[2], feed, n)

FeedStep(r, feed, n) == FeedField(tag(r), feed, n)

\* if (entityErrors > 0) feed._entityErrors = entityErrors; return feed;
FeedResult(feed, n) ==
  IF n > 0 THEN Put(feed, "_entityErrors", n) ELSE feed

Returned(v) == [st |-> "ok", v |-> v, msg |-> NoMsg]
NotReturned(st, m) == [st |-> st, v |-> EmptyObj, msg |-> m]

RECURSIVE FeedLoop(_, _, _, _)
FeedNext(seen, res) ==
  IF res.st # "ok" THEN NotReturned(res.st, res.msg)
  ELSE FeedLoop(res.r, res.feed, res.errors, seen)

FeedLoop(r, feed, n, seen) ==
  IF done(r) THEN Returned(FeedResult(feed, n))
  ELSE IF r.p \in seen THEN NotReturned("hang", NoMsg)
  ELSE FeedNext(seen \cup {r.p}, FeedStep(r, feed, n))

parseFeedMessage(buf) == FeedLoop(PBReader(OfBuffer(buf)), FeedInit, 0, {})

\* ------------------------------------------------------------------------
\* Input feeds: sequences of top-level fields
\* ------------------------------------------------------------------------
MaxFields == 3

\* A length-delimited field: tag byte, one-byte length, body.
LenField(tagByte, body) == <<tagByte, Len(body)>> \o body

\* Bodies of feed entities.  VehicleBody: id "a", vehicle { timestamp 5,
\* position { latitude } }.  TripBody: tripUpdate { trip { tripId "t" },
\* stopTimeUpdate [{ stopSequence 1 }], delay 60 }.
VehicleBody == <<10, 1, 97, 34, 9, 56, 5, 26, 5, 13, 51, 51, 76, 66>>
TripBody == <<26, 11, 10, 3, 10, 1, 116, 18, 2, 8, 1, 40, 60>>
\* vehicle { stopId: a length of 3 with 1 byte left }
ShortStrBody == <<10, 1, 97, 34, 3, 42, 3, 116>>
\* vehicle { position { latitude: 2 of 4 bytes } }
ShortFloatBody == <<34, 5, 26, 3, 13, 0, 0>>
\* field 1 with wire type 3
BadWireBody == <<10, 1, 97, 11>>
\* isDeleted: a varint whose last byte has the continuation bit
CutVarintBody == <<10, 1, 97, 16, 128>>
\* field 5, length-delimited, with the length 2^64 - 11 in ten bytes
RewindBody == <<42, 245, 255, 255, 255, 255, 255, 255, 255, 255, 1>>

\* A top-level field as the feed's producer wrote it: its bytes, and for an
\* entity field (field 2, length-delimited) the body its length prefix
\* frames.
EntityFieldOf(body) == [kind |-> "entity", bytes |-> LenField(18, body), body |-> body]
PlainField(kind, bs) == [kind |-> kind, bytes |-> bs, body |-> <<>>]

\* An entity field whose prefix declares two bytes more than its body has.
OverlongField(body) ==
  [kind |-> "overlong", bytes |-> <<18, Len(body) + 2>> \o body, body |-> body]

HeaderBytes == LenField(10, <<10, 1, 50, 16, 0, 24, 5>>)
CutHeaderBytes == LenField(10, <<10, 1, 50, 24, 128>>)

\* Fields after which the decode goes on.
InnerFields ==
  {EntityFieldOf(b) : b \in {VehicleBody, TripBody, ShortStrBody, CutVarintBody}} \cup
  {PlainField("header", HeaderBytes), OverlongField(VehicleBody)}

\* Fields written last.
LastFields ==
  {EntityFieldOf(b) : b \in {ShortFloatBody, BadWireBody, RewindBody}} \cup
  { PlainField("other", <<24, 5>>),
    PlainField("badheader", CutHeaderBytes),
    PlainField("badwire", <<19>>),
    PlainField("cuttag", <<128>>),
    PlainField("cutlength", <<18, 128>>),
    PlainField("rewind", <<18, 245, 255, 255, 255, 255, 255, 255, 255, 255, 1>>),
    PlainField("rewind", <<26, 245, 255, 255, 255, 255, 255, 255, 255, 255, 1>>) }

RECURSIVE Flatten(_)
Flatten(fs) == IF fs = <<>> THEN <<>> ELSE Head(fs).bytes \o Flatten(Tail(fs))

\* An entity whose field 5 holds, as a string, the bytes of an empty entity
\* field and of the tag and length of a field of 11 bytes; after it a field
\* 3 of declared length 2^64 - 15, which bytes() takes for -15: the cursor
\* goes from 19 back to 4, into the string.
EchoBody == <<42, 4, 18, 0, 26, 11>>
EchoFeed ==
  <<EntityFieldOf(EchoBody),
    PlainField("rewind", <<26, 241, 255, 255, 255, 255, 255, 255, 255, 255, 1>>)>>

FieldSeqs ==
  {<<>>, EchoFeed} \cup
  {Append(g, l) : g \in UNION {[1..n -> InnerFields] : n \in 0..(MaxFields - 1)},
                  l \in InnerFields \cup LastFields}

\* ------------------------------------------------------------------------
\* Inputs of a single reader
\* ------------------------------------------------------------------------
MaxTrail == 1
MaxDepth == 1
\* Calls are followed while the cursor is not below -MaxBack.
MaxBack == 12

\* m \div 128 for a magnitude below 2^64.
MagShr7(m) ==
  Mag((m.l0 \div 128) + (m.l1 % 128) * 131072,
      (m.l1 \div 128) + (m.l2 % 128) * 131072,
      m.l2 \div 128)

\* The standard base-128 varint encoding of an unsigned 64-bit integer:
\* seven bits a byte, low bits first, the high bit set on all but the last.
RECURSIVE EncodeVarint(_)
EncodeVarint(m) ==
  IF m.l0 < 128 /\ m.l1 = 0 /\ m.l2 = 0 THEN <<m.l0>>
  ELSE <<128 + (m.l0 % 128)>> \o EncodeVarint(MagShr7(m))

\* 0, 1, 127, 128, 150, 16383, 16384, 2^32 - 1, 2^53, 2^53 + 1, 2^63 - 1,
\* 2^63, and
\* 2^64 + n for n = -2^31, -150, -1.
Unsigned64 ==
  { Mag(0, 0, 0), Mag(1, 0, 0), Mag(127, 0, 0), Mag(128, 0, 0), Mag(150, 0, 0),
    Mag(16383, 0, 0), Mag(16384, 0, 0), Mag(16777215, 255, 0),
    Mag(0, 0, 32), Mag(1, 0, 32), Mag(16777215, 16777215, 32767), Mag(0, 0, 32768),
    Mag(0, 16777088, 65535), Mag(16777066, 16777215, 65535),
    Mag(16777215, 16777215, 65535) }

Trails == UNION {[1..n -> {7}] : n \in 0..MaxTrail}

VarintSource(n, trail) == [kind |-> "varint", n |-> n, bytes |-> EncodeVarint(n) \o trail]
RawSource(bs) == [kind |-> "raw", n |-> Mag(0, 0, 0), bytes |-> bs]

\* A length-delimited field whose body is the field 3 with the length
\* 2^64 - 12 in ten bytes, followed by two bytes of the enclosing message.
RewindSub == LenField(10, <<26, 244, 255, 255, 255, 255, 255, 255, 255, 255, 1>>) \o <<9, 9>>

RawInputs ==
  { <<>>, <<128>>, <<255, 255>>,
    <<255, 255, 255, 255, 255, 255, 255, 255, 255, 255>>,
    <<128, 128, 128, 128, 128, 128, 128, 128, 128, 128, 1>>,
    <<13, 1, 2, 3, 4>>, <<13, 1, 2>>,
    <<9, 1, 2, 3, 4, 5, 6, 7, 8>>, <<9, 1, 2, 3>>,
    <<10, 3, 97, 98, 99>>, <<10, 5, 97>>,
    <<10, 3, 13, 1, 2, 3, 4, 5>>,
    <<10, 4, 18, 2, 8, 1, 8, 2>>,
    <<11>>, <<12, 1>>, <<14, 1>>, <<15>>,
    RewindSub }

ReaderSources ==
  {VarintSource(n, t) : n \in Unsigned64, t \in Trails} \cup {RawSource(bs) : bs \in RawInputs}

\* ------------------------------------------------------------------------
\* State
\* ------------------------------------------------------------------------
VARIABLES
  src,      \* what the input was written from
  buf,      \* the input bytes
  pc,       \* "call", "loop", "returned", "thrown", "hang"; "new", "reader"
  r,        \* the reader in use
  feed,     \* the feed under construction
  entityErrors,
  seen,     \* the cursors the top-level loop has been at
  ret,      \* what parseFeedMessage returned, or the message it threw
  stack,    \* the readers whose sub() gave the reader in use, outermost first
  last,     \* the last reader operation: its name, arguments, reader before and outcome
  request,  \* the request the worker's fetch handler was called with
  env,      \* the worker's environment: the secret DL_GTFSRT
  upstream, \* what the vendor endpoint answers
  sent,     \* the requests the worker has made to the vendor endpoint
  responses, \* the responses the handler has returned
  markers,  \* the poller's Map of markers, by vehicle id
  layers,   \* the markers on the map
  runs      \* the calls of updateVehicles, in the order they were started

web == <<request, env, upstream, sent, responses, markers, layers, runs>>

vars == <<src, buf, pc, r, feed, entityErrors, seen, ret, stack, last, web>>

\* No request to the worker and no page.
WebIdle ==
  /\ request = [method |-> "", pathname |-> ""]
  /\ env = [DL_GTFSRT |-> ""]
  /\ upstream = [kind |-> "none"]
  /\ sent = <<>>
  /\ responses = <<>>
  /\ markers = <<>>
  /\ layers = {}
  /\ runs = <<>>

NoReader == PBReader(OfBuffer(<<>>))
NoLast == [op |-> "none", w |-> 0, expected |-> 0, before |-> NoReader, out |-> Ok(NoReader, Zero)]

\* ------------------------------------------------------------------------
\* The decode of one feed, one loop iteration of parseFeedMessage a step
\* ------------------------------------------------------------------------
Init ==
  /\ src \in FieldSeqs
  /\ buf = Flatten(src)
  /\ pc = "call"
  /\ r = NoReader
  /\ feed = FeedInit
  /\ entityErrors = 0
  /\ seen = {}
  /\ ret = NotReturned("none", NoMsg)
  /\ stack = <<>>
  /\ last = NoLast
  /\ WebIdle

\* const r = new PBReader(buf); ...
Call ==
  /\ pc = "call"
  /\ r' = PBReader(OfBuffer(buf))
  /\ feed' = FeedInit
  /\ entityErrors' = 0
  /\ seen' = {}
  /\ pc' = "loop"
  /\ UNCHANGED <<web, src, buf, ret, stack, last>>

\* One iteration that completes: a header, an entity or a skipped field.
Completes(res) ==
  /\ res.st = "ok"
  /\ r' = res.r
  /\ feed' = res.feed
  /\ entityErrors' = res.errors

Iterate ==
  /\ pc = "loop"
  /\ ~done(r)
  /\ r.p \notin seen
  /\ Completes(FeedStep(r, feed, entityErrors))
  /\ seen' = seen \cup {r.p}
  /\ UNCHANGED <<web, src, buf, pc, ret, stack, last>>

\* An iteration that throws: the error leaves parseFeedMessage.
Throws(res) ==
  /\ res.st = "throw"
  /\ r' = res.r
  /\ ret' = NotReturned("throw", res.msg)

Fail ==
  /\ pc = "loop"
  /\ ~done(r)
  /\ r.p \notin seen
  /\ Throws(FeedStep(r, feed, entityErrors))
  /\ pc' = "thrown"
  /\ UNCHANGED <<web, src, buf, feed, entityErrors, seen, stack, last>>

\* The call never returns: an entity's parser loops, or the top-level loop
\* is back at a cursor it has been at.
Loops ==
  /\ pc = "loop"
  /\ ~done(r)
  /\ \/ r.p \in seen
     \/ r.p \notin seen /\ FeedStep(r, feed, entityErrors).st = "hang"
  /\ pc' = "hang"
  /\ UNCHANGED <<web, src, buf, r, feed, entityErrors, seen, ret, stack, last>>

\* return feed
Return ==
  /\ pc = "loop"
  /\ done(r)
  /\ ret' = Returned(FeedResult(feed, entityErrors))
  /\ pc' = "returned"
  /\ UNCHANGED <<web, src, buf, r, feed, entityErrors, seen, stack, last>>

Next == Call \/ Iterate \/ Fail \/ Loops \/ Return

Spec == Init /\ [][Next]_vars

\* ------------------------------------------------------------------------
\* One reader and the readers sub() makes of it, a method call a step
\* ------------------------------------------------------------------------
InitReader ==
  /\ src \in ReaderSources
  /\ buf = src.bytes
  /\ pc = "new"
  /\ r = NoReader
  /\ feed = FeedInit
  /\ entityErrors = 0
  /\ seen = {}
  /\ ret = NotReturned("none", NoMsg)
  /\ stack = <<>>
  /\ last = NoLast
  /\ WebIdle

\* new PBReader(buf)
New ==
  /\ pc = "new"
  /\ r' = PBReader(OfBuffer(buf))
  /\ pc' = "reader"
  /\ UNCHANGED <<web, src, buf, feed, entityErrors, seen, ret, stack, last>>

\* A method call on the reader in use.
Applied(op, w, expected, out) ==
  /\ pc = "reader"
  /\ NumGE(r.p, Num(-MaxBack))
  /\ r' = out.r
  /\ last' = [op |-> op, w |-> w, expected |-> expected, before |-> r, out |-> out]
  /\ UNCHANGED <<web, src, buf, pc, feed, entityErrors, seen, ret, stack>>

Varint == Applied("varint", 0, 0, varint(r))
Sint32 == Applied("sint32", 0, 0, sint32(r))
Float == Applied("float", 0, 0, float(r))
Double == Applied("double", 0, 0, double(r))
Bytes == Applied("bytes", 0, 0, bytes(r))
Str == Applied("str", 0, 0, str(r))
Tag == Applied("tag", 0, 0, tag(r))
Skip == \E w \in 0..7 : Applied("skip", w, 0, skip(r, w))

\* The read the parsers pair with an expected wire type.
TypedRead(rd, expected) ==
  CASE expected = W_VARINT -> ReadVarint(rd)
    [] expected = W_64 -> ReadDouble(rd)
    [] expected = W_LEN -> ReadStr(rd)
    [] expected = W_32 -> ReadFloat(rd)

ReadIf ==
  \E w \in 0..7, expected \in {W_VARINT, W_64, W_LEN, W_32} :
    Applied("readIf", w, expected, readIf(r, w, expected, TypedRead(r, expected)))

\* r.sub(): the nested reader becomes the reader in use.
Entered(out) ==
  /\ pc = "reader"
  /\ NumGE(r.p, Num(-MaxBack))
  /\ Len(stack) < MaxDepth
  /\ r' = IF out.st = "ok" THEN out.v ELSE out.r
  /\ stack' = IF out.st = "ok" THEN Append(stack, out.r) ELSE stack
  /\ last' = [op |-> "sub", w |-> 0, expected |-> 0, before |-> r, out |-> out]
  /\ UNCHANGED <<web, src, buf, pc, feed, entityErrors, seen, ret>>

Sub == Entered(sub(r))

\* The parser of the nested message is left: back to the enclosing reader.
EndSub ==
  /\ pc = "reader"
  /\ stack # <<>>
  /\ r' = stack[Len(stack)]
  /\ stack' = SubSeq(stack, 1, Len(stack) - 1)
  /\ last' = NoLast
  /\ UNCHANGED <<web, src, buf, pc, feed, entityErrors, seen, ret>>

NextReader ==
  New \/ Varint \/ Sint32 \/ Float \/ Double \/ Bytes \/ Str \/ Tag \/ Skip \/ ReadIf
    \/ Sub \/ EndSub

SpecReader == InitReader /\ [][NextReader]_vars

\* ------------------------------------------------------------------------
\* Properties of parseFeedMessage (specification Spec)
\* ------------------------------------------------------------------------
Finished == pc \in {"returned", "thrown", "hang"}

\* The entity fields of a feed, in stream order.
Entities(s) == SelectSeq(s, LAMBDA f : f.kind = "entity")

\* Every top-level field is a header, an entity framed by its own length, or
\* a field the loop skips.
Intact(s) == \A k \in 1..Len(s) : s[k].kind \in {"entity", "header", "other"}

\* What parseFeedEntity does on the bytes of one entity alone.
Isolated(body) == parseFeedEntity(PBReader(OfBuffer(body)))
Slot(res) == IF res.st = "ok" THEN res.v ELSE Marker(res.msg)

NotDecoded(s) == {k \in 1..Len(Entities(s)) : Isolated(Entities(s)[k].body).st # "ok"}
Thrown(s) == {k \in 1..Len(Entities(s)) : Isolated(Entities(s)[k].body).st = "throw"}
Hanging(s) == {k \in 1..Len(Entities(s)) : Isolated(Entities(s)[k].body).st = "hang"}

InStreamOrder(s, es) ==
  /\ Len(es) = Len(Entities(s))
  /\ \A k \in 1..Len(es) : es[k] = Slot(Isolated(Entities(s)[k].body))

\* C1: for a feed with intact top-level framing in which the parse of exactly
\* one entity's own bytes fails, parseFeedMessage returns; entity has one
\* element per entity field, a marker at the failed index and everywhere else
\* what parseFeedEntity yields for that entity's bytes, in stream order.
C1_Isolation ==
  (Finished /\ Intact(src) /\ Cardinality(NotDecoded(src)) = 1)
    => (pc = "returned" /\ InStreamOrder(src, ret.v.entity))

\* C1, for the failures that are thrown: if exactly one entity's parse throws
\* and every other entity's parse returns, the call returns with the marker
\* at the failed index and the other entities decoded in stream order.
C1_IsolationOfThrown ==
  (Finished /\ Intact(src) /\ Cardinality(Thrown(src)) = 1 /\ Hanging(src) = {})
    => (pc = "returned" /\ InStreamOrder(src, ret.v.entity)
        /\ \A k \in Thrown(src) : IsMarker(ret.v.entity[k]))

C1_Witness ==
  /\ pc = "returned"
  /\ Intact(src)
  /\ Len(Entities(src)) = 3
  /\ Thrown(src) = {2}
  /\ IsMarker(ret.v.entity[2])
  /\ ~IsMarker(ret.v.entity[3])

\* The decoded VehicleBody.
DecodedVehicle ==
  [id |-> Value("string", <<97>>),
   vehicle |-> VObj([timestamp |-> Value("number", Num(5)),
                     position |-> VObj([latitude |-> Value("float", <<51, 51, 76, 66>>)])])]

ThreeWithMarker ==
  /\ pc = "returned"
  /\ Len(ret.v.entity) = 3
  /\ ret.v.entity[1] = DecodedVehicle
  /\ IsMarker(ret.v.entity[2])
  /\ ret.v.entity[3] = DecodedVehicle
  /\ Has(ret.v, "_entityErrors")
  /\ ret.v["_entityErrors"] = 1

NestedOverrun ==
  /\ Intact(src)
  /\ Entities(src) =
       <<EntityFieldOf(VehicleBody), EntityFieldOf(ShortStrBody), EntityFieldOf(VehicleBody)>>

PrefixOverrun ==
  src = <<EntityFieldOf(VehicleBody), OverlongField(VehicleBody), EntityFieldOf(VehicleBody)>>

\* C2, amended: a feed of 3 entities in which a length-delimited field inside
\* entity 1 declares 2 bytes more than remain in the entity's own, correctly
\* framed byte range decodes to 3 entities: entity[1] a marker, entity[0] and
\* entity[2] the decoded vehicle positions, the error counter 1.
C2_NestedOverrun == (Finished /\ NestedOverrun) => ThreeWithMarker

C2_Witness == NestedOverrun /\ ThreeWithMarker

\* C2 as stated: the prefix of entity 1 itself declares 2 bytes more than the
\* entity's body has, and the feed still decodes to 3 entities with the
\* marker at index 1 and the error counter 1.
C2_PrefixOverrun == (Finished /\ PrefixOverrun) => ThreeWithMarker

Markers(es) == Cardinality({k \in 1..Len(es) : IsMarker(es[k])})

\* C3: entityErrors is the number of markers in feed.entity at every point of
\* the call; a returned feed carries _entityErrors equal to its number of
\* markers when there is one, and no _entityErrors when there is none.
C3_ErrorCount ==
  /\ pc \in {"loop", "returned", "thrown", "hang"} => entityErrors = Markers(feed.entity)
  /\ pc = "returned" =>
       IF Markers(ret.v.entity) = 0 THEN ~Has(ret.v, "_entityErrors")
       ELSE Has(ret.v, "_entityErrors") /\ ret.v["_entityErrors"] = Markers(ret.v.entity)

C3_Witness ==
  /\ pc = "returned"
  /\ Len(ret.v.entity) = 3
  /\ Has(ret.v, "_entityErrors")
  /\ ret.v["_entityErrors"] = 2

\* The ways the last field of a feed fails above the entity boundary: inside
\* the header, by an unknown wire type, by a tag or a length prefix cut off,
\* by a length larger than the bytes that remain.
AboveFailures == {"badheader", "badwire", "cuttag", "cutlength", "overlong", "rewind"}

EndsInFailure(kinds) ==
  /\ src # <<>>
  /\ Intact(SubSeq(src, 1, Len(src) - 1))
  /\ Hanging(SubSeq(src, 1, Len(src) - 1)) = {}
  /\ src[Len(src)].kind \in kinds

\* C4: a decode failure above the entity boundary makes parseFeedMessage
\* throw, however many entities were decoded before it; no feed is returned.
C4_FatalAbove ==
  (Finished /\ EndsInFailure(AboveFailures)) => (pc = "thrown" /\ ret.st = "throw")

\* C4, for lengths below 2^63: a failure inside the header, an unknown wire
\* type, a tag or length prefix cut off, or an entity length larger than the
\* bytes remaining makes parseFeedMessage throw.
C4_ThrowAbove ==
  (Finished /\ EndsInFailure(AboveFailures \ {"rewind"})) => (pc = "thrown" /\ ret.st = "throw")

C4_Witness ==
  /\ pc = "thrown"
  /\ EndsInFailure({"overlong"})
  /\ Len(feed.entity) = 2

\* ------------------------------------------------------------------------
\* Properties of the reader (specification SpecReader)
\* ------------------------------------------------------------------------
\* The reader in use was made by sub(): the enclosing reader is on the stack,
\* its cursor at the end of the range the length prefix declared.
Enclosing == stack[Len(stack)]
DeclaredRange ==
  SubSeq(Enclosing.b, Int32Of(Enclosing.p) - r.end + 1, Int32Of(Enclosing.p))

\* The reader holds the declared range and nothing else, and its cursor is
\* not beyond its end.
OwnRange ==
  /\ r.end = Len(r.b)
  /\ r.b = DeclaredRange
  /\ ~NumGT(r.p, Num(r.end))

\* C5: a reader obtained through sub() keeps its cursor within 0..end, end
\* being the declared length, and holds no byte of the parent that lies after
\* the declared range.
C5_CursorInRange ==
  (pc = "reader" /\ stack # <<>>) => (OwnRange /\ ~r.p.neg)

\* C5, the upper half: a reader obtained through sub() holds exactly the
\* bytes of the declared range and its cursor never exceeds end, whatever
\* follows the range in the parent.
C5_NoParentBytes ==
  (pc = "reader" /\ stack # <<>>) => OwnRange

C5_Witness ==
  /\ pc = "reader"
  /\ stack # <<>>
  /\ buf = <<10, 3, 13, 1, 2, 3, 4, 5>>
  /\ last.op = "float"
  /\ last.out.st = "throw"
  /\ r.p = Num(1)

\* The full read that belongs to a wire type.
FullRead(rd, w) ==
  CASE w = 0 -> varint(rd)
    [] w = 1 -> double(rd)
    [] w = 2 -> bytes(rd)
    [] w = 5 -> float(rd)

Agree(a, b) == (a.st = "throw") = (b.st = "throw") /\ a.r.p = b.r.p

\* C6: for w in {0, 1, 2, 5} and every reader state, skip(w) throws exactly
\* where the full read of that wire type throws and leaves the cursor where
\* the full read leaves it.
C6_SkipAgrees ==
  (last.op = "skip" /\ last.w \in {0, 1, 2, 5})
    => Agree(last.out, FullRead(last.before, last.w))

\* C6, for a cursor that is not negative: skip(w) and the full read agree.
C6_SkipAgreesInRange ==
  (last.op = "skip" /\ last.w \in {0, 1, 2, 5} /\ ~last.before.p.neg)
    => Agree(last.out, FullRead(last.before, last.w))

C6_Witness ==
  /\ last.op = "skip"
  /\ last.w = 1
  /\ last.out.st = "ok"
  /\ last.before.p = Num(1)
  /\ r.p = Num(9)

UnknownWire(res, before) ==
  /\ res.st = "throw"
  /\ res.msg.what = "Unknown wire type"
  /\ res.r = before

Kinds ==
  {"TripDescriptor", "VehicleDescriptor", "StopTimeEvent", "StopTimeUpdate", "TripUpdate",
   "Position", "VehiclePosition", "FeedEntity", "FeedHeader"}

\* C7: skip(w) with w in {3, 4, 6, 7} throws the unknown-wire-type error and
\* leaves the cursor where it was, called directly, through readIf on a known
\* field number, or by a parser on an unknown field number.
C7_UnknownWire ==
  /\ (last.op \in {"skip", "readIf"} /\ last.w \in {3, 4, 6, 7})
       => UnknownWire(last.out, last.before)
  /\ pc = "reader" =>
       \A kind \in Kinds, f \in {1, 15}, w \in {3, 4, 6, 7} :
         UnknownWire(Field(kind, f, w, r, EmptyObj), r)

C7_Witness ==
  /\ last.op = "readIf"
  /\ last.w = 3
  /\ last.expected = W_LEN
  /\ last.out.st = "throw"
  /\ last.before.p = Num(1)
  /\ r.p = Num(1)

\* A byte with the high bit clear is among the next 10 bytes of the reader.
Terminator(rd) ==
  \E k \in 0..9 : rd.p.l0 + k < Len(rd.b) /\ rd.b[rd.p.l0 + k + 1] < 128

\* C8: varint() throws whenever no terminating byte is found within 10 bytes
\* or before the slice ends; it returns no value for 10 continuation bytes.
C8_Terminates ==
  (last.op = "varint" /\ ~last.before.p.neg /\ ~Terminator(last.before))
    => last.out.st = "throw"

\* C8, the underrun: varint() throws when the slice ends, fewer than 10 bytes
\* on, before a terminating byte.
C8_EOFThrows ==
  (last.op = "varint" /\ ~last.before.p.neg /\ ~Terminator(last.before)
     /\ last.before.end - last.before.p.l0 < 10)
    => (last.out.st = "throw" /\ last.out.msg.what = "varint: unexpected EOF")

C8_Witness ==
  /\ last.op = "varint"
  /\ last.before.b = <<255, 255>>
  /\ last.before.p = Zero
  /\ last.out.st = "throw"
  /\ r.p = Num(2)

\* The call was made at the start of the encoding of src.n.
OnEncoding(op) ==
  /\ src.kind = "varint"
  /\ last.op = op
  /\ last.before.b = buf
  /\ last.before.p = Zero

Consumed == last.out.st = "ok" /\ last.out.r.p = Num(Len(EncodeVarint(src.n)))

\* C9: for every unsigned 64-bit n, varint() on the standard encoding of n
\* returns exactly n and advances the cursor by the number of encoded bytes.
C9_RoundTrip ==
  OnEncoding("varint") => (Consumed /\ last.out.v = MkNum(FALSE, src.n))

Two53 == Mag(0, 0, 32)

\* C9, up to 2^53: varint() returns exactly n; for every n it advances the
\* cursor by the number of encoded bytes.
C9_RoundTripTo53 ==
  OnEncoding("varint")
    => (Consumed /\ (~MagLess(Two53, src.n) => last.out.v = MkNum(FALSE, src.n)))

C9_Witness ==
  /\ OnEncoding("varint")
  /\ src.n = Two53
  /\ last.out.v = MkNum(FALSE, Two53)
  /\ r.p = Num(8)

\* C10: sint32() consumes the bytes of one varint and returns the low 32 bits
\* of the encoded unsigned value as a two's-complement integer, without
\* zigzag decoding.
C10_Low32 ==
  OnEncoding("sint32") => (Consumed /\ last.out.v = AsInt32(Low32(src.n)))

\* 2^64 - 2^31
SignExtended == Mag(0, 16777088, 65535)

\* C10, where varint() is exact: for n up to 2^53 and for the 10-byte
\* sign-extended encodings of -2^31..-1 sint32() returns the low 32 bits as
\* a two's-complement integer; the varint 1 yields 1.
C10_Low32Exact ==
  OnEncoding("sint32")
    => (Consumed /\ ((~MagLess(Two53, src.n) \/ ~MagLess(src.n, SignExtended))
                       => last.out.v = AsInt32(Low32(src.n))))

C10_Witness ==
  /\ OnEncoding("sint32")
  /\ src.n = Mag(16777066, 16777215, 65535)
  /\ last.out.v = Num(-150)
  /\ r.p = Num(10)

\* ------------------------------------------------------------------------
\* Well-formed messages, a field a record of its bytes and of what it is to
\* the parser of its message: a "known" field (its number recognized, its
\* wire type the expected one; slot and value are what it sets), a
\* "repeated" field (value is the element it appends), a "mismatch" (its
\* number recognized, its wire type another valid one) or an "unknown" field
\* ------------------------------------------------------------------------
MaxMsg == 3

VStr(cps) == Value("string", cps)
VNum(i) == Value("number", Num(i))
VBool(b) == Value("boolean", b)
VFloat(bs) == Value("float", bs)
Obj1(k, v) == Put(EmptyObj, k, v)

Known(bs, slot, v) == [bytes |-> bs, role |-> "known", slot |-> slot, value |-> v]
Repeated(bs, slot, v) == [bytes |-> bs, role |-> "repeated", slot |-> slot, value |-> v]
Mismatch(bs, slot) == [bytes |-> bs, role |-> "mismatch", slot |-> slot, value |-> Undefined]
Unknown(bs) == [bytes |-> bs, role |-> "unknown", slot |-> "", value |-> Undefined]

\* Field 15 with each wire type (the body of the length-delimited one reads
\* as a field itself), and field 16, whose tag takes two bytes.
UnknownFields ==
  { Unknown(<<120, 5>>),
    Unknown(<<121, 1, 2, 3, 4, 5, 6, 7, 8>>),
    Unknown(<<122, 2, 10, 1>>),
    Unknown(<<125, 1, 2, 3, 4>>),
    Unknown(<<128, 1, 5>>) }

\* An entity of a trip update (timestamp 0) and a vehicle position
\* (timestamp 5).
TripAndVehicle ==
  Put(Obj1("tripUpdate", VObj(Put(TripUpdateInit, "timestamp", VNum(0)))),
      "vehicle", VObj(Obj1("timestamp", VNum(5))))

\* Entities, each with the id "a", in which a read asks for more bytes than
\* its reader has: at the level of the entity (isDeleted, a varint cut), the
\* trip update (timestamp cut), the stop-time update (stopId, 3 bytes
\* declared and 1 left), the stop-time event (delay cut), the vehicle
\* position (stopId), the trip descriptor (tripId, 2 declared and 1 left),
\* the vehicle descriptor (id) and the position (latitude, 2 bytes of 4).
\* value is the marker of the Error thrown.
Failing(body, what, at, need) ==
  Repeated(LenField(18, <<10, 1, 97>> \o body), "entity", Marker(Msg(what, Num(at), Num(need))))

FailingEntities ==
  { Failing(<<16, 128>>, "varint: unexpected EOF", 5, 0),
    Failing(<<26, 2, 32, 128>>, "varint: unexpected EOF", 2, 0),
    Failing(<<26, 5, 18, 3, 34, 3, 116>>, "bytes: need", 2, 3),
    Failing(<<26, 6, 18, 4, 18, 2, 8, 128>>, "varint: unexpected EOF", 2, 0),
    Failing(<<34, 3, 42, 3, 116>>, "bytes: need", 2, 3),
    Failing(<<34, 5, 10, 3, 10, 2, 116>>, "bytes: need", 2, 2),
    Failing(<<34, 5, 18, 3, 10, 2, 118>>, "bytes: need", 2, 2),
    Failing(<<34, 5, 26, 3, 13, 0, 0>>, "float: EOF", 1, 0) }

\* An entity of 17 bytes: id, a string of 4 bytes, then field 5 with the
\* declared length 2^64 - 13 and no byte left.  bytes() takes the length for
\* -13 and the cursor goes from 17 back to 4, to the last two bytes of the
\* id, which read as field 5 with 11 bytes: the loop ends at 17.  value is
\* the entity parseFeedEntity returns.
EchoEntity ==
  Repeated(LenField(18, <<10, 4, 97, 98, 42, 11, 42, 243, 255, 255, 255, 255, 255, 255, 255, 255, 1>>),
           "entity", Obj1("id", VStr(<<97, 98, 42, 11>>)))

Pool(kind) ==
  CASE kind = "TripDescriptor" ->
         { Known(<<10, 1, 116>>, "tripId", VStr(<<116>>)),
           Known(<<10, 3, 97, 98, 99>>, "tripId", VStr(<<97, 98, 99>>)),
           Known(<<10, 0>>, "tripId", VStr(<<>>)),
           Known(<<32, 0>>, "scheduleRelationship", VNum(0)),
           Mismatch(<<8, 5>>, "tripId"),
           Mismatch(<<34, 2, 10, 1>>, "scheduleRelationship") }
    [] kind = "VehicleDescriptor" ->
         { Known(<<10, 1, 118>>, "id", VStr(<<118>>)),
           Known(<<18, 0>>, "label", VStr(<<>>)),
           Mismatch(<<21, 1, 2, 3, 4>>, "label") }
    [] kind = "StopTimeEvent" ->
         { Known(<<8, 0>>, "delay", VNum(0)),
           Known(<<8, 10>>, "delay", VNum(10)),
           Known(<<16, 60>>, "time", VNum(60)),
           Mismatch(<<10, 1, 8>>, "delay") }
    [] kind = "StopTimeUpdate" ->
         { Known(<<8, 3>>, "stopSequence", VNum(3)),
           Known(<<18, 2, 8, 0>>, "arrival", VObj(Obj1("delay", VNum(0)))),
           Known(<<34, 0>>, "stopId", VStr(<<>>)),
           Mismatch(<<16, 1>>, "arrival") }
    [] kind = "TripUpdate" ->
         { Known(<<10, 3, 10, 1, 116>>, "trip", VObj(Obj1("tripId", VStr(<<116>>)))),
           Repeated(<<18, 2, 8, 3>>, "stopTimeUpdate", Obj1("stopSequence", VNum(3))),
           Repeated(<<18, 0>>, "stopTimeUpdate", EmptyObj),
           Known(<<32, 0>>, "timestamp", VNum(0)),
           Mismatch(<<16, 7>>, "stopTimeUpdate") }
    [] kind = "Position" ->
         { Known(<<13, 0, 0, 0, 0>>, "latitude", VFloat(<<0, 0, 0, 0>>)),
           Known(<<13, 51, 51, 76, 66>>, "latitude", VFloat(<<51, 51, 76, 66>>)),
           Known(<<33, 0, 0, 0, 0, 0, 0, 0, 0>>, "odometer", VFloat(<<0, 0, 0, 0, 0, 0, 0, 0>>)),
           Mismatch(<<9, 1, 2, 3, 4, 5, 6, 7, 8>>, "latitude"),
           Mismatch(<<37, 1, 2, 3, 4>>, "odometer") }
    [] kind = "VehiclePosition" ->
         { Known(<<10, 3, 10, 1, 116>>, "trip", VObj(Obj1("tripId", VStr(<<116>>)))),
           Known(<<56, 0>>, "timestamp", VNum(0)),
           Known(<<42, 1, 115>>, "stopId", VStr(<<115>>)),
           Mismatch(<<24, 1>>, "position") }
    [] kind = "FeedEntity" ->
         { Known(<<10, 1, 97>>, "id", VStr(<<97>>)),
           Known(<<16, 0>>, "isDeleted", VBool(FALSE)),
           Known(<<16, 1>>, "isDeleted", VBool(TRUE)),
           Known(<<26, 2, 32, 0>>, "tripUpdate", VObj(Put(TripUpdateInit, "timestamp", VNum(0)))),
           Known(<<34, 2, 56, 5>>, "vehicle", VObj(Obj1("timestamp", VNum(5)))),
           Mismatch(<<18, 1, 8>>, "isDeleted") }
    [] kind = "FeedHeader" ->
         { Known(<<10, 1, 50>>, "gtfsRealtimeVersion", VStr(<<50>>)),
           Known(<<16, 0>>, "incrementality", VNum(0)),
           Known(<<24, 5>>, "timestamp", VNum(5)),
           Mismatch(<<21, 1, 2, 3, 4>>, "incrementality") }

    [] kind = "FeedMessage" ->
         { Known(<<10, 2, 16, 0>>, "header", Obj1("incrementality", VNum(0))),
           Repeated(<<18, 3, 10, 1, 97>>, "entity", Obj1("id", VStr(<<97>>))),
           Repeated(<<18, 0>>, "entity", EmptyObj),
           Repeated(<<18, 8, 26, 2, 32, 0, 34, 2, 56, 5>>, "entity", TripAndVehicle),
           Repeated(<<18, 1, 11>>, "entity", Marker(Msg("Unknown wire type", Num(1), Num(3)))),
           Mismatch(<<16, 5>>, "entity") } \cup FailingEntities \cup {EchoEntity}

\* The fields of a vehicle position in the numbering of the vendor variant;
\* fields 3 and 7, position and timestamp in the standard numbering, are
\* unknown to it.
VendorPool ==
  { Known(<<10, 3, 10, 1, 116>>, "trip", VObj(Obj1("tripId", VStr(<<116>>)))),
    Known(<<18, 5, 13, 0, 0, 0, 0>>, "position", VObj(Obj1("latitude", VFloat(<<0, 0, 0, 0>>)))),
    Known(<<40, 5>>, "timestamp", VNum(5)),
    Known(<<66, 3, 10, 1, 118>>, "vehicle", VObj(Obj1("id", VStr(<<118>>)))),
    Mismatch(<<16, 1>>, "position"),
    Unknown(<<26, 5, 13, 0, 0, 0, 0>>),
    Unknown(<<56, 9>>) }

PoolOf(cls, kind) ==
  IF cls = "part_005" /\ kind = "VehiclePosition" THEN VendorPool ELSE Pool(kind)

MessageKinds ==
  { "TripDescriptor", "VehicleDescriptor", "StopTimeEvent", "StopTimeUpdate", "TripUpdate",
    "Position", "VehiclePosition", "FeedEntity", "FeedHeader", "FeedMessage" }

\* The messages: up to MaxMsg known and repeated fields, and those with one
\* more field, of any role, inserted at any position.
Plain(cls, kind) ==
  {x \in PoolOf(cls, kind) : x.role \in {"known", "repeated"}} \ (FailingEntities \cup {EchoEntity})
FieldsOf(cls, kind) == PoolOf(cls, kind) \cup UnknownFields

SeqsUpTo(S, n) == UNION {[1..k -> S] : k \in 0..n}

Insert(fs, i, x) == SubSeq(fs, 1, i) \o <<x>> \o SubSeq(fs, i + 1, Len(fs))

Insertions(fs, xs) == {Insert(fs, i, x) : i \in 0..Len(fs), x \in xs}

FieldSeqsOf(cls, kind) ==
  UNION {Insertions(fs, FieldsOf(cls, kind)) : fs \in SeqsUpTo(Plain(cls, kind), MaxMsg - 1)}
    \cup {<<>>}

MessagesOf(cls, kind) ==
  {[cls |-> cls, kind |-> kind, fields |-> fs] : fs \in FieldSeqsOf(cls, kind)}

\* Field 15 as a 64-bit field with 3 bytes and with none, and as a 32-bit
\* field with 2 bytes and with none: the message ends inside the field.
Cut(bs) == [bytes |-> bs, role |-> "cut", slot |-> "", value |-> Undefined]
CutFields == {Cut(<<121, 1, 2, 3>>), Cut(<<121>>), Cut(<<125, 1, 2>>), Cut(<<125>>)}

\* An entity of the id "a" and a cut field; value is what parseFeedEntity
\* of the vendor variant returns.
CutEntity(c) ==
  Repeated(LenField(18, <<10, 1, 97>> \o c.bytes), "entity", Obj1("id", VStr(<<97>>)))
CutEntities == {CutEntity(c) : c \in CutFields}

\* The fields that are to the vendor variant what they are to worker.js:
\* not the vehicle positions in the numbering of worker.js, and not the
\* marker, whose message is worded differently.
VendorPlain(kind) ==
  {x \in Plain("part_005", kind) :
     /\ kind = "FeedEntity" => x.slot # "vehicle"
     /\ kind = "FeedMessage" => (x.value # TripAndVehicle /\ ~IsMarker(x.value))}

\* For the vendor variant: entities and vehicle positions ending in a cut
\* field, and feeds with one entity ending in a cut field.
VendorCutMessages ==
  UNION {{[cls |-> "part_005", kind |-> kind, fields |-> Append(fs, c)] :
            fs \in SeqsUpTo(VendorPlain(kind), MaxMsg - 1), c \in CutFields} :
         kind \in {"FeedEntity", "VehiclePosition"}}
    \cup
  UNION {{[cls |-> "part_005", kind |-> "FeedMessage", fields |-> gs] :
            gs \in Insertions(fs, CutEntities)} :
         fs \in SeqsUpTo(VendorPlain("FeedMessage"), MaxMsg - 1)}

Messages ==
  UNION {MessagesOf("worker.js", kind) : kind \in MessageKinds}
    \cup MessagesOf("part_005", "VehiclePosition")
    \cup VendorCutMessages

\* ------------------------------------------------------------------------
\* One call of a message parser, or of parseFeedMessage, on a message
\* ------------------------------------------------------------------------
\* What a parser starts from: const o = {}, and parseTripUpdate's
\* const o = { stopTimeUpdate: [] }.
InitOf(kind) == IF kind = "TripUpdate" THEN TripUpdateInit ELSE EmptyObj

\* The call as its caller sees it: the object returned, or the Error.
Outcome(res) == IF res.st = "ok" THEN Returned(res.v) ELSE NotReturned(res.st, res.msg)

ParseMessage(cls, kind, bs) ==
  IF kind = "FeedMessage" THEN FeedLoop(PBReaderOf(cls, OfBuffer(bs)), FeedInit, 0, {})
  ELSE Outcome(ParseLoop(kind, PBReaderOf(cls, OfBuffer(bs)), InitOf(kind), {}))

InitParse ==
  /\ src \in Messages
  /\ buf = Flatten(src.fields)
  /\ pc = "parse"
  /\ r = NoReader
  /\ feed = FeedInit
  /\ entityErrors = 0
  /\ seen = {}
  /\ ret = NotReturned("none", NoMsg)
  /\ stack = <<>>
  /\ last = NoLast
  /\ WebIdle

Parse ==
  /\ pc = "parse"
  /\ ret' = ParseMessage(src.cls, src.kind, buf)
  /\ pc' = "parsed"
  /\ UNCHANGED <<web, src, buf, r, feed, entityErrors, seen, stack, last>>

NextParse == Parse

SpecParse == InitParse /\ [][NextParse]_vars

\* ------------------------------------------------------------------------
\* Properties of the message parsers (specification SpecParse)
\* ------------------------------------------------------------------------
Parsed == pc = "parsed"

\* The message without its fields of a role.
Without(fs, role) == SelectSeq(fs, LAMBDA x : x.role # role)

Positions(fs, role) == {i \in 1..Len(fs) : fs[i].role = role}

\* C11: a well-formed field of an unrecognized number, of any of the wire
\* types 0, 1, 2 and 5 and at any position of a message, does not change
\* what the parser of the message, or the top-level loop, returns: the
\* result is that of the message without the field.
C11_UnknownIgnored ==
  Parsed => ret = ParseMessage(src.cls, src.kind, Flatten(Without(src.fields, "unknown")))

\* An unrecognized length-delimited field between two known fields, the
\* later of which is decoded to its value.
C11_Witness ==
  /\ Parsed
  /\ ret.st = "ok"
  /\ Len(src.fields) = 3
  /\ src.fields[1].role = "known"
  /\ src.fields[2].bytes = <<122, 2, 10, 1>>
  /\ src.fields[3].role = "known"
  /\ Get(ret.v, src.fields[3].slot) = src.fields[3].value

\* Two outcomes whose objects read the same in every slot: a slot that was
\* assigned undefined reads as one that was never assigned.
SameSlots(a, b) ==
  /\ a.st = b.st
  /\ \A k \in DOMAIN a.v \cup DOMAIN b.v : Get(a.v, k) = Get(b.v, k)

\* C12: a known field number with a valid wire type other than the expected
\* one is skipped by the wire type present: its slot keeps the value it had
\* (reads as undefined if never set), no typed reader is applied, and the
\* fields that follow are decoded as if the field were not there.
C12_MismatchSkipped ==
  Parsed =>
    SameSlots(ret, ParseMessage(src.cls, src.kind, Flatten(Without(src.fields, "mismatch"))))

\* A mismatched occurrence after a set slot and before another field; both
\* known fields hold their values.
C12_Witness ==
  /\ Parsed
  /\ ret.st = "ok"
  /\ Len(src.fields) = 3
  /\ src.fields[1].role = "known"
  /\ src.fields[2].role = "mismatch"
  /\ src.fields[2].slot = src.fields[1].slot
  /\ src.fields[3].role = "known"
  /\ src.fields[3].slot # src.fields[1].slot
  /\ Get(ret.v, src.fields[1].slot) = src.fields[1].value
  /\ Get(ret.v, src.fields[3].slot) = src.fields[3].value

\* A mismatched occurrence of a slot never set: the slot reads as undefined.
MismatchOfUnsetSlot ==
  /\ Parsed
  /\ ret.st = "ok"
  /\ Len(src.fields) = 1
  /\ src.fields[1].role = "mismatch"
  /\ Get(ret.v, src.fields[1].slot) = Undefined

\* The known occurrences of a slot that no later known occurrence of the
\* same slot follows.
LastOccurrences(fs) ==
  {i \in Positions(fs, "known") :
     \A j \in Positions(fs, "known") : j > i => fs[j].slot # fs[i].slot}

\* C13: when a scalar field number occurs several times in a message with
\* the expected wire type, the slot holds the value of the last occurrence,
\* also when that value is 0, false or the empty string.
C13_LastWins ==
  (Parsed /\ src.kind # "FeedMessage") =>
    /\ ret.st = "ok"
    /\ \A i \in LastOccurrences(src.fields) :
         Get(ret.v, src.fields[i].slot) = src.fields[i].value

\* isDeleted true, then isDeleted false: the entity holds false.
C13_Witness ==
  /\ Parsed
  /\ src.kind = "FeedEntity"
  /\ Len(src.fields) = 2
  /\ src.fields[1].bytes = <<16, 1>>
  /\ src.fields[2].bytes = <<16, 0>>
  /\ Get(ret.v, "isDeleted") = VBool(FALSE)

\* ------------------------------------------------------------------------
\* Repeated fields (specification Spec; stop-time updates in SpecParse)
\* ------------------------------------------------------------------------
\* The entities appended so far are what the first entity fields of the
\* stream decode to, one element a field, in stream order.
PrefixInOrder(s, es) ==
  /\ Len(es) <= Len(Entities(s))
  /\ \A k \in 1..Len(es) : es[k] = Slot(Isolated(Entities(s)[k].body))

\* The feeds whose entity fields are the fields 2 of wire type 2 that the
\* byte stream holds: no entity field declares more bytes than it has.
FramedEntities(s) == \A k \in 1..Len(s) : s[k].kind # "overlong"

\* C14: the i-th element of feed.entity corresponds to the i-th top-level
\* field 2 of wire type 2 of the byte stream, markers included; at every
\* point of the call the elements appended are those of the first such
\* fields, and the returned sequence has one element for each of them.
C14_InOrder ==
  FramedEntities(src) =>
    /\ PrefixInOrder(src, feed.entity)
    /\ pc = "returned" => InStreamOrder(src, ret.v.entity)

\* C14, for feeds of intact top-level framing.
C14_InOrderIntact ==
  Intact(src) =>
    /\ PrefixInOrder(src, feed.entity)
    /\ pc = "returned" => InStreamOrder(src, ret.v.entity)

\* Three entities returned in stream order, the second a marker.
C14_Witness ==
  /\ pc = "returned"
  /\ Intact(src)
  /\ Len(Entities(src)) = 3
  /\ Len(ret.v.entity) = 3
  /\ IsMarker(ret.v.entity[2])
  /\ ret.v.entity[1] # ret.v.entity[3]
  /\ InStreamOrder(src, ret.v.entity)

\* The elements the repeated fields of a message were written with.
ElementsOf(fs) ==
  LET rs == SelectSeq(fs, LAMBDA x : x.role = "repeated") IN [i \in 1..Len(rs) |-> rs[i].value]

\* The stop-time updates of a trip update and the entities of a feed message
\* are the elements of their repeated fields, in the order of the fields.
RepeatedInOrder ==
  /\ (Parsed /\ src.kind = "TripUpdate") =>
       ret.st = "ok" /\ ret.v["stopTimeUpdate"].v = ElementsOf(src.fields)
  /\ (Parsed /\ src.kind = "FeedMessage") =>
       ret.st = "ok" /\ ret.v.entity = ElementsOf(src.fields)

TwoStopTimeUpdates ==
  /\ Parsed
  /\ src.kind = "TripUpdate"
  /\ Len(ElementsOf(src.fields)) = 3
  /\ ElementsOf(src.fields)[1] # ElementsOf(src.fields)[2]

\* The call on EchoFeed returns two entities for the one entity field.
EchoReturned ==
  /\ pc = "returned"
  /\ src = EchoFeed
  /\ Len(Entities(src)) = 1
  /\ Len(ret.v.entity) = 2

\* ------------------------------------------------------------------------
\* Presence of optional slots (specification SpecParse)
\* ------------------------------------------------------------------------
Present(o, k) == Get(o, k).t # "undefined"

\* The optional slots to look at: those the fields of the message's kind
\* set and those the record has, but for the repeated ones.
OptionalSlots(cls, kind, o) ==
  ({x.slot : x \in {y \in PoolOf(cls, kind) : y.role \in {"known", "mismatch"}}} \cup DOMAIN o)
    \ {x.slot : x \in {y \in PoolOf(cls, kind) : y.role = "repeated"}}

Occurs(fs, k) == \E i \in Positions(fs, "known") : fs[i].slot = k

\* C15: in the record a message parser returns, an optional slot is present
\* exactly when the message holds an occurrence of its field number with the
\* expected wire type; no slot is given a default value, and a zero on the
\* wire gives a present slot holding zero.
C15_PresentIffOccurs ==
  (Parsed /\ src.kind # "FeedMessage") =>
    /\ ret.st = "ok"
    /\ \A k \in OptionalSlots(src.cls, src.kind, ret.v) : Present(ret.v, k) <=> Occurs(src.fields, k)

\* A stop-time event of the one field delay = 0: delay is present and zero,
\* time is absent.
C15_Witness ==
  /\ Parsed
  /\ src.kind = "StopTimeEvent"
  /\ Len(src.fields) = 1
  /\ src.fields[1].bytes = <<8, 0>>
  /\ Present(ret.v, "delay")
  /\ Get(ret.v, "delay") = VNum(0)
  /\ ~Present(ret.v, "time")

\* ------------------------------------------------------------------------
\* The content of an entity (specification SpecParse)
\* ------------------------------------------------------------------------
HasBoth(e) == Present(e, "tripUpdate") /\ Present(e, "vehicle")

\* C16: every entity in the output of parseFeedMessage, and every entity
\* parseFeedEntity returns, carries at most one of tripUpdate and vehicle.
C16_AtMostOne ==
  /\ (Parsed /\ src.kind = "FeedMessage" /\ ret.st = "ok") =>
       \A i \in 1..Len(ret.v.entity) : ~HasBoth(ret.v.entity[i])
  /\ (Parsed /\ src.kind = "FeedEntity" /\ ret.st = "ok") => ~HasBoth(ret.v)

\* C16, as far as it holds: an entity carries both only when its bytes hold
\* both a field 3 and a field 4 of wire type 2.
C16_BothOnlyIfSent ==
  (Parsed /\ src.kind = "FeedEntity") =>
    /\ ret.st = "ok"
    /\ HasBoth(ret.v) <=> (Occurs(src.fields, "tripUpdate") /\ Occurs(src.fields, "vehicle"))

\* An entity of a vehicle position and no trip update.
C16_Witness ==
  /\ Parsed
  /\ src.kind = "FeedEntity"
  /\ Occurs(src.fields, "vehicle")
  /\ ~Occurs(src.fields, "tripUpdate")
  /\ Present(ret.v, "vehicle")
  /\ ~Present(ret.v, "tripUpdate")

\* parseFeedMessage returns an entity that carries both.
BothReturned ==
  /\ Parsed
  /\ src.kind = "FeedMessage"
  /\ ret.st = "ok"
  /\ \E i \in 1..Len(ret.v.entity) : ret.v.entity[i] = TripAndVehicle

\* ------------------------------------------------------------------------
\* Termination of parseFeedMessage (specification Spec)
\* ------------------------------------------------------------------------
\* The cursor of the top-level loop is past every cursor an iteration
\* started at.
CursorAdvanced == \A q \in seen : NumLess(q, r.p)

\* C17: parseFeedMessage returns or throws on every finite buffer: no loop,
\* at any nesting level, comes back to a cursor it has been at, and every
\* iteration of the top-level loop that completes leaves the cursor further
\* on than it started.
C17_Terminates ==
  /\ pc # "hang"
  /\ pc \in {"loop", "returned"} => CursorAdvanced

\* The feeds without a declared length of 2^63 or more.
NoRewind(s) == \A k \in 1..Len(s) : s[k].kind # "rewind" /\ s[k].body # RewindBody

\* C17, for declared lengths below 2^63.
C17_TerminatesBelow ==
  NoRewind(src) =>
    /\ pc # "hang"
    /\ pc \in {"loop", "returned"} => CursorAdvanced

\* A feed of three fields decoded in three iterations.
C17_Witness ==
  /\ pc = "returned"
  /\ NoRewind(src)
  /\ Cardinality(seen) = 3
  /\ CursorAdvanced

\* ------------------------------------------------------------------------
\* bytes() on a length prefix (specification SpecReader)
\* ------------------------------------------------------------------------
\* The reader is at the encoding of the length src.n; PrefixEnd is where the
\* prefix ends and Remain the number of bytes after it.
PrefixEnd == Len(EncodeVarint(src.n))
Remain == Len(buf) - PrefixEnd
Fits == src.n.l1 = 0 /\ src.n.l2 = 0 /\ src.n.l0 <= Remain

ExactOrThrow ==
  IF Fits
  THEN /\ last.out.st = "ok"
       /\ ViewBytes(last.out.v) = SubSeq(buf, PrefixEnd + 1, PrefixEnd + src.n.l0)
       /\ last.out.r.p = Num(PrefixEnd + src.n.l0)
  ELSE last.out.st = "throw"

\* C18: bytes() reads a varint length L; when at least L bytes remain it
\* returns exactly the L bytes after the prefix and leaves the cursor at
\* prefix end + L; when fewer remain it throws and returns nothing.
C18_ExactOrThrow == OnEncoding("bytes") => ExactOrThrow

Two63 == Mag(0, 0, 32768)

\* C18, for L below 2^63.
C18_ExactOrThrowBelow == (OnEncoding("bytes") /\ MagLess(src.n, Two63)) => ExactOrThrow

\* The length 1 before one byte: that byte is returned, the cursor is 2.
C18_Witness ==
  /\ OnEncoding("bytes")
  /\ src.n = Mag(1, 0, 0)
  /\ Remain = 1
  /\ last.out.st = "ok"
  /\ ViewBytes(last.out.v) = <<7>>
  /\ r.p = Num(2)

\* The length 2^64 - 1 before one byte: bytes() returns, with no bytes.
NegativeLengthReturns ==
  /\ OnEncoding("bytes")
  /\ src.n = Mag(16777215, 16777215, 65535)
  /\ Remain = 1
  /\ last.out.st = "ok"
  /\ ViewBytes(last.out.v) = <<>>
  /\ r.p = Num(9)

\* ------------------------------------------------------------------------
\* float() and double() (specification SpecReader)
\* ------------------------------------------------------------------------
\* Fewer than n bytes remain between the cursor and the reader's end.
Short(n) == ~last.before.p.neg /\ last.before.end - last.before.p.l0 < n

FixedWidth(n) ==
  IF Short(n)
  THEN last.out.st = "throw" /\ last.out.r.p = last.before.p
  ELSE last.out.st = "ok" /\ last.out.r.p = NumAdd(last.before.p, Num(n))

\* C19: float() and double() throw with the cursor unchanged when fewer than
\* 4 respectively 8 bytes remain before the reader's end, and otherwise
\* advance the cursor by exactly 4 respectively 8 bytes.
C19_FixedWidth ==
  /\ last.op = "float" => FixedWidth(4)
  /\ last.op = "double" => FixedWidth(8)

\* C19, for a cursor that is not negative.
C19_FixedWidthInRange ==
  /\ (last.op = "float" /\ ~last.before.p.neg) => FixedWidth(4)
  /\ (last.op = "double" /\ ~last.before.p.neg) => FixedWidth(8)

\* double() after a tag, 8 bytes remaining: the cursor goes from 1 to 9.
C19_Witness ==
  /\ last.op = "double"
  /\ last.before.p = Num(1)
  /\ last.before.end = 9
  /\ last.out.st = "ok"
  /\ r.p = Num(9)

\* float() with 2 bytes remaining throws, the cursor unchanged.
ShortFloatThrows ==
  /\ last.op = "float"
  /\ last.before.p = Num(1)
  /\ last.before.end = 3
  /\ last.out.st = "throw"
  /\ r.p = Num(1)

\* float() at the cursor -1 throws, 12 bytes before the reader's end.
NegativeCursorThrows ==
  /\ last.op = "float"
  /\ last.before.p = Num(-1)
  /\ last.before.end = 11
  /\ last.out.st = "throw"
  /\ r.p = Num(-1)

\* ------------------------------------------------------------------------
\* parseVehiclePosition of the vendor variant (specification SpecParse)
\* ------------------------------------------------------------------------
Vendor == Parsed /\ src.cls = "part_005" /\ src.kind = "VehiclePosition"

\* C20: in the vendor variant parseVehiclePosition maps length-delimited
\* field 1 to trip, length-delimited field 2 to position, varint field 5 to
\* timestamp and length-delimited field 8 to vehicle; every other field
\* number, 3 and 7 of the standard numbering included, is skipped and leaves
\* the output unaffected.
C20_VendorNumbering ==
  Vendor =>
    /\ ret.st = "ok"
    /\ DOMAIN ret.v \subseteq {"trip", "position", "timestamp", "vehicle"}
    /\ \A i \in LastOccurrences(src.fields) :
         Get(ret.v, src.fields[i].slot) = src.fields[i].value
    /\ \A k \in DOMAIN ret.v : Present(ret.v, k) <=> Occurs(src.fields, k)
    /\ ret = ParseMessage(src.cls, src.kind, Flatten(Without(src.fields, "unknown")))

\* Field 2, then field 3 of the standard numbering, then field 5: position
\* and timestamp are set from fields 2 and 5, and nothing else is.
C20_Witness ==
  /\ Vendor
  /\ Len(src.fields) = 3
  /\ src.fields[1].bytes = <<18, 5, 13, 0, 0, 0, 0>>
  /\ src.fields[2].bytes = <<26, 5, 13, 0, 0, 0, 0>>
  /\ src.fields[3].bytes = <<40, 5>>
  /\ DOMAIN ret.v = {"position", "timestamp"}
  /\ Get(ret.v, "timestamp") = VNum(5)
  /\ Get(ret.v, "position") = VObj(Obj1("latitude", VFloat(<<0, 0, 0, 0>>)))

\* ------------------------------------------------------------------------
\* tag() (specification SpecReader; the trip descriptor also in SpecParse)
\* ------------------------------------------------------------------------
\* The low 32 bits of src.n shifted right by 3, and its low 3 bits.
SplitOf(n) == <<(n.l0 \div 8) + (n.l1 % 256) * 2097152, n.l0 % 8>>

Abc == <<10, 3, 97, 98, 99>>

\* On the bytes 0x0A, 0x03, 'a', 'b', 'c': tag() yields field 1 of wire type
\* 2, and str() after it "abc", at the end of the bytes.
AbcRead ==
  /\ (last.op = "tag" /\ last.before.b = Abc /\ last.before.p = Zero)
       => (last.out.st = "ok" /\ last.out.v = <<1, 2>> /\ last.out.r.p = Num(1))
  /\ (last.op = "str" /\ last.before.b = Abc /\ last.before.p = Num(1))
       => (last.out.st = "ok" /\ last.out.v = <<97, 98, 99>> /\ done(last.out.r))

\* C21: tag() decodes one varint v and yields the field number v shifted
\* right by 3 (an unsigned 32-bit shift) and the wire type v masked to its
\* low 3 bits; on 0x0A, 0x03, 'a', 'b', 'c' that is field 1 of wire type 2,
\* followed by the string "abc".
C21_TagSplits ==
  /\ OnEncoding("tag") => (Consumed /\ last.out.v = SplitOf(src.n))
  /\ AbcRead

\* C21, for v up to 2^53.
C21_TagSplitsTo53 ==
  /\ (OnEncoding("tag") /\ ~MagLess(Two53, src.n))
       => (Consumed /\ last.out.v = SplitOf(src.n))
  /\ AbcRead

\* tag() on the varint 150: field 18, wire type 6.
C21_Witness ==
  /\ OnEncoding("tag")
  /\ src.n = Mag(150, 0, 0)
  /\ last.out.v = <<18, 6>>
  /\ r.p = Num(2)

\* str() has read "abc" after the tag.
AbcStr ==
  /\ last.op = "str"
  /\ last.before.b = Abc
  /\ last.before.p = Num(1)
  /\ last.out.v = <<97, 98, 99>>

\* parseTripDescriptor on those bytes: tripId is "abc", no other slot.
AbcTripDescriptor ==
  (Parsed /\ src.kind = "TripDescriptor" /\ buf = Abc)
    => (ret.st = "ok" /\ DOMAIN ret.v = {"tripId"}
        /\ Get(ret.v, "tripId") = VStr(<<97, 98, 99>>))

AbcParsed == Parsed /\ src.kind = "TripDescriptor" /\ buf = Abc /\ DOMAIN ret.v = {"tripId"}

\* ------------------------------------------------------------------------
\* Two calls of parseFeedMessage over two buffers, their loop iterations
\* interleaved in any order. Each variable holds one value per call: r,
\* feed and entityErrors are locals of the call (worker.js:235-237), and a
\* reader owns a copy of its input.
\* ------------------------------------------------------------------------
Calls == {1, 2}

PairFeeds ==
  { <<>>,
    <<EntityFieldOf(VehicleBody)>>,
    <<EntityFieldOf(BadWireBody), EntityFieldOf(VehicleBody)>>,
    <<PlainField("header", HeaderBytes), EntityFieldOf(ShortFloatBody)>>,
    <<EntityFieldOf(TripBody), PlainField("badwire", <<19>>)>>,
    <<EntityFieldOf(ShortStrBody), EntityFieldOf(RewindBody)>> }

\* The errors counted by all calls together: what a call would read if the
\* counter were one variable of the module.
CounterShared(errs, i) == errs[1] + errs[2]

\* let entityErrors = 0: the counter of call i.
Counter(errs, i) == errs[i]

InitPair ==
  /\ src \in [Calls -> PairFeeds]
  /\ buf = [i \in Calls |-> Flatten(src[i])]
  /\ pc = [i \in Calls |-> "call"]
  /\ r = [i \in Calls |-> NoReader]
  /\ feed = [i \in Calls |-> FeedInit]
  /\ entityErrors = [i \in Calls |-> 0]
  /\ seen = [i \in Calls |-> {}]
  /\ ret = [i \in Calls |-> NotReturned("none", NoMsg)]
  /\ stack = <<>>
  /\ last = NoLast
  /\ WebIdle

CallOf(i) ==
  /\ pc[i] = "call"
  /\ r' = [r EXCEPT ![i] = PBReader(OfBuffer(buf[i]))]
  /\ feed' = [feed EXCEPT ![i] = FeedInit]
  /\ entityErrors' = [entityErrors EXCEPT ![i] = 0]
  /\ seen' = [seen EXCEPT ![i] = {}]
  /\ pc' = [pc EXCEPT ![i] = "loop"]
  /\ UNCHANGED <<web, src, buf, ret, stack, last>>

CompletesOf(i, res) ==
  /\ res.st = "ok"
  /\ r' = [r EXCEPT ![i] = res.r]
  /\ feed' = [feed EXCEPT ![i] = res.feed]
  /\ entityErrors' = [entityErrors EXCEPT ![i] = res.errors]

IterateOf(i) ==
  /\ pc[i] = "loop"
  /\ ~done(r[i])
  /\ r[i].p \notin seen[i]
  /\ CompletesOf(i, FeedStep(r[i], feed[i], Counter(entityErrors, i)))
  /\ seen' = [seen EXCEPT ![i] = @ \cup {r[i].p}]
  /\ UNCHANGED <<web, src, buf, pc, ret, stack, last>>

ThrowsOf(i, res) ==
  /\ res.st = "throw"
  /\ r' = [r EXCEPT ![i] = res.r]
  /\ ret' = [ret EXCEPT ![i] = NotReturned("throw", res.msg)]

FailOf(i) ==
  /\ pc[i] = "loop"
  /\ ~done(r[i])
  /\ r[i].p \notin seen[i]
  /\ ThrowsOf(i, FeedStep(r[i], feed[i], Counter(entityErrors, i)))
  /\ pc' = [pc EXCEPT ![i] = "thrown"]
  /\ UNCHANGED <<web, src, buf, feed, entityErrors, seen, stack, last>>

LoopsOf(i) ==
  /\ pc[i] = "loop"
  /\ ~done(r[i])
  /\ \/ r[i].p \in seen[i]
     \/ r[i].p \notin seen[i] /\ FeedStep(r[i], feed[i], Counter(entityErrors, i)).st = "hang"
  /\ pc' = [pc EXCEPT ![i] = "hang"]
  /\ UNCHANGED <<web, src, buf, r, feed, entityErrors, seen, ret, stack, last>>

ReturnOf(i) ==
  /\ pc[i] = "loop"
  /\ done(r[i])
  /\ ret' = [ret EXCEPT ![i] = Returned(FeedResult(feed[i], Counter(entityErrors, i)))]
  /\ pc' = [pc EXCEPT ![i] = "returned"]
  /\ UNCHANGED <<web, src, buf, r, feed, entityErrors, seen, stack, last>>

NextPair == \E i \in Calls : CallOf(i) \/ IterateOf(i) \/ FailOf(i) \/ LoopsOf(i) \/ ReturnOf(i)

SpecPair == InitPair /\ [][NextPair]_vars

\* The outcome of the call on a buffer alone.
Alone(bs) == parseFeedMessage(bs)

\* C22: decode calls share no mutable state: whatever the interleaving with
\* a call over another buffer, a call that returns returns what the call on
\* its buffer alone returns, one that throws throws the same Error, one
\* that does not end does not end alone either; and the input buffers hold
\* the bytes they held.
C22_Independent ==
  /\ \A i \in Calls :
       /\ pc[i] = "returned" => ret[i] = Alone(Flatten(src[i]))
       /\ pc[i] = "thrown" => ret[i] = Alone(Flatten(src[i]))
       /\ pc[i] = "hang" => Alone(Flatten(src[i])).st = "hang"
  /\ buf = [i \in Calls |-> Flatten(src[i])]

\* Both calls have returned, each a marker and its own count of 1, the
\* second call having started and ended while the first was in its loop.
C22_Witness ==
  /\ pc[1] = "returned"
  /\ pc[2] = "returned"
  /\ src[1] = <<EntityFieldOf(BadWireBody), EntityFieldOf(VehicleBody)>>
  /\ src[2] = <<PlainField("header", HeaderBytes), EntityFieldOf(ShortFloatBody)>>
  /\ ret[1].v["_entityErrors"] = 1
  /\ ret[2].v["_entityErrors"] = 1

\* ------------------------------------------------------------------------
\* A failure inside an entity (specification SpecParse)
\* ------------------------------------------------------------------------
\* The index in feed.entity of what field k of the feed appends.
SlotOf(fs, k) == Len(ElementsOf(SubSeq(fs, 1, k)))

\* The slot of field k holds a marker: one key, the message.
MarkerAt(k) ==
  /\ ret.st = "ok"
  /\ SlotOf(src.fields, k) \in 1..Len(ret.v.entity)
  /\ DOMAIN ret.v.entity[SlotOf(src.fields, k)] = {"_parseError"}

Replaced(failing) ==
  (Parsed /\ src.kind = "FeedMessage") =>
    \A k \in 1..Len(src.fields) :
      src.fields[k] \in failing =>
        /\ MarkerAt(k)
        /\ src.fields[k] \in FailingEntities
             => ret.v.entity[SlotOf(src.fields, k)] = src.fields[k].value

\* C23: a read at any nesting depth inside an entity that asks for more
\* bytes than remain (a varint cut, a fixed-width value cut, a declared
\* length above what is left) replaces the whole entity: its slot of
\* feed.entity holds a marker with the message and nothing else, not the
\* id decoded before the failure.
C23_Replaced == Replaced(FailingEntities \cup {EchoEntity})

\* C23, for declared lengths below 2^63.
C23_ReplacedBelow == Replaced(FailingEntities)

\* A feed of an entity, of an entity failing in a stop-time event and of an
\* entity: three slots, the second the marker.
C23_Witness ==
  /\ Parsed
  /\ src.kind = "FeedMessage"
  /\ Len(src.fields) = 3
  /\ src.fields[2] = Failing(<<26, 6, 18, 4, 18, 2, 8, 128>>, "varint: unexpected EOF", 2, 0)
  /\ src.fields[1].slot = "entity"
  /\ src.fields[3].slot = "entity"
  /\ Len(ret.v.entity) = 3
  /\ ret.v.entity[2] = Marker(Msg("varint: unexpected EOF", Num(2), Zero))
  /\ ret.v["_entityErrors"] = 1

\* The entity with the declared length 2^64 - 13 is returned as decoded,
\* with its id.
EchoEntityReturned ==
  /\ Parsed
  /\ src.fields = <<EchoEntity>>
  /\ ret.st = "ok"
  /\ ret.v.entity = <<Obj1("id", VStr(<<97, 98, 42, 11>>))>>
  /\ ~Has(ret.v, "_entityErrors")

\* ------------------------------------------------------------------------
\* The sign of varint() (specification SpecReader)
\* ------------------------------------------------------------------------
\* varint() has returned a number.
VarintReturned == last.op = "varint" /\ last.out.st = "ok"

\* C24: varint() never returns a negative number: whatever the bytes it
\* accepts, the 10-byte encodings with bit 63 set included, the result is
\* not below 0.
C24_NonNegative == VarintReturned => ~last.out.v.neg

\* C24, below 2^63: on the encoding of an n below 2^63 at cursor 0 varint()
\* returns a number that is not negative.
C24_NonNegativeBelow == (OnEncoding("varint") /\ MagLess(src.n, Two63)) => ~last.out.v.neg

\* The encoding of 2^63 - 1, nine bytes: the result is positive.
C24_Witness ==
  /\ OnEncoding("varint")
  /\ src.n = Mag(16777215, 16777215, 32767)
  /\ Len(buf) = 9
  /\ ~last.out.v.neg
  /\ last.out.v # Zero

\* The encoding of 2^63, ten bytes, the last one 1: the result is negative.
Bit63Negative ==
  /\ OnEncoding("varint")
  /\ src.n = Two63
  /\ buf = <<128, 128, 128, 128, 128, 128, 128, 128, 128, 1>>
  /\ last.out.v.neg

\* ------------------------------------------------------------------------
\* skip() of the vendor variant at the end of a message (specification
\* SpecParse)
\* ------------------------------------------------------------------------
HasCut(fs) == \E k \in 1..Len(fs) : fs[k].role = "cut"

\* The reader of a message parser after the parser has run on the input.
ReaderAfter == ParseLoop(src.kind, PBReaderOf(src.cls, OfBuffer(buf)), InitOf(src.kind), {}).r

\* C25: in the vendor variant, skipping a 64-bit or 32-bit field of which
\* fewer than 8 or 4 bytes remain raises an error: the cursor of the reader
\* does not go past its end, the parser of a message that ends inside such
\* a field throws, and in a feed the entity that ends inside such a field
\* is a marker.
C25_CutFieldThrows ==
  (Parsed /\ src.cls = "part_005") =>
    /\ (src.kind # "FeedMessage" /\ HasCut(src.fields)) =>
         /\ ret.st = "throw"
         /\ ~NumGT(ReaderAfter.p, Num(ReaderAfter.end))
    /\ src.kind = "FeedMessage" =>
         \A k \in 1..Len(src.fields) : src.fields[k] \in CutEntities => MarkerAt(k)

\* C25, for the fields that are whole: in the vendor variant a message with
\* an unrecognized 64-bit or 32-bit field of 8 or 4 bytes is decoded as the
\* message without the field, and no call throws an error of skip().
Whole64Or32(x) == x.role = "unknown" /\ x.bytes[1] % 8 \in {1, 5}

C25_WholeFieldSkipped ==
  (Parsed /\ src.cls = "part_005" /\ ~HasCut(src.fields)) =>
    /\ ret = ParseMessage(src.cls, src.kind,
                          Flatten(SelectSeq(src.fields, LAMBDA x : ~Whole64Or32(x))))
    /\ ret.st = "ok"

\* A vehicle position of the vendor variant, an unrecognized 64-bit field
\* of 8 bytes between its timestamp and its trip, both decoded.
C25_Witness ==
  /\ Parsed
  /\ src.cls = "part_005"
  /\ Len(src.fields) = 3
  /\ src.fields[1].slot = "timestamp"
  /\ src.fields[2].bytes = <<121, 1, 2, 3, 4, 5, 6, 7, 8>>
  /\ src.fields[3].slot = "trip"
  /\ Get(ret.v, "timestamp") = VNum(5)
  /\ Get(ret.v, "trip") = VObj(Obj1("tripId", VStr(<<116>>)))

\* A feed of the vendor variant whose one entity is the id "a" and 3 of the
\* 8 bytes of a 64-bit field: the entity is returned as decoded.
CutEntityReturned ==
  /\ Parsed
  /\ src.cls = "part_005"
  /\ src.fields = <<CutEntity(Cut(<<121, 1, 2, 3>>))>>
  /\ ret.st = "ok"
  /\ ret.v.entity = <<Obj1("id", VStr(<<97>>))>>
  /\ ~Has(ret.v, "_entityErrors")

\* The parser of an entity of the vendor variant has returned with its
\* cursor, 12, past the end, 7, of its reader.
CursorPastEnd ==
  /\ Parsed
  /\ src.cls = "part_005"
  /\ src.kind = "FeedEntity"
  /\ src.fields = <<Known(<<10, 1, 97>>, "id", VStr(<<97>>)), Cut(<<121, 1, 2, 3>>)>>
  /\ ret.st = "ok"
  /\ ReaderAfter.p = Num(12)
  /\ ReaderAfter.end = 7

\* ------------------------------------------------------------------------
\* The worker's fetch handler.  Two runs of the worker get the same request
\* and the same answer of the vendor endpoint, each with its own secret; a
\* step is the code between two awaits.  pc, buf, ret, sent and responses
\* hold one value per run.
\* ------------------------------------------------------------------------
Workers == {1, 2}

GTFS_API_URL ==
  "https://api.delijn.be/gtfs/v3/realtime?canceled=true&delay=true&position=true&vehicleid=true&tripid=true"

CORS ==
  ("Access-Control-Allow-Origin" :> "*") @@ ("Access-Control-Allow-Methods" :> "GET, OPTIONS")

Null == [t |-> "null"]

\* JSON.stringify: a property whose value is undefined is left out, a
\* number that is not finite (a float32 or float64 whose exponent bits are
\* all 1) is written null.  The text is kept as the tree it denotes.
NonFinite(bs) ==
  \/ Len(bs) = 4 /\ bs[4] % 128 = 127 /\ bs[3] >= 128
  \/ Len(bs) = 8 /\ bs[8] % 128 = 127 /\ bs[7] >= 240

RECURSIVE StringifyObject(_)
StringifyValue(v) ==
  IF v.t = "object" THEN VObj(StringifyObject(v.v))
  ELSE IF v.t = "array" THEN VArray([i \in 1..Len(v.v) |-> StringifyObject(v.v[i])])
  ELSE IF v.t = "float" /\ NonFinite(v.v) THEN Null
  ELSE v

StringifyObject(o) ==
  [k \in {j \in DOMAIN o : o[j].t # "undefined"} |-> StringifyValue(o[k])]

StringifyEntity(e) == IF IsMarker(e) THEN e ELSE StringifyObject(e)

StringifyFeed(f) ==
  [k \in DOMAIN f |->
     IF k = "header" THEN VObj(StringifyObject(f[k]))
     ELSE IF k = "entity" THEN [i \in 1..Len(f[k]) |-> StringifyEntity(f[k][i])]
     ELSE f[k]]

\* toHex(buf, n = 32): the first min(length, n) bytes, each as two
\* hexadecimal digits (a digit is kept as its value).
toHex(bs, n) ==
  [i \in 1..(IF Len(bs) < n THEN Len(bs) ELSE n) |-> <<bs[i] \div 16, bs[i] % 16>>]

\* new TextDecoder().decode(new Uint8Array(raw, 0, Math.min(raw.byteLength, 200)))
first200Text(raw) == decode(SubSeq(raw, 1, IF Len(raw) < 200 THEN Len(raw) ELSE 200))

Response(status, headers, body) == [status |-> status, headers |-> headers, body |-> body]

\* json(obj, status): obj is given stringified.
json(text, status) ==
  Response(status,
           ("Content-Type" :> "application/json") @@ ("Cache-Control" :> "no-store") @@ CORS,
           [json |-> text])

\* The Response constructor throws for a body with one of these statuses.
NullBodyStatus(status) == status \in {101, 204, 205, 304}

\* upResp.ok
ok(status) == status \in 200..299

\* !env.DL_GTFSRT
Configured(e) == e.DL_GTFSRT.t = "string" /\ e.DL_GTFSRT.v # ""

\* The request without the key.
UpstreamRequestBare(e) ==
  [url |-> GTFS_API_URL, headers |-> ("Ocp-Apim-Subscription-Key" :> "")]

\* The request of fetch(GTFS_API_URL, { headers }).
UpstreamRequest(e) ==
  [url |-> GTFS_API_URL, headers |-> ("Ocp-Apim-Subscription-Key" :> e.DL_GTFSRT.v)]

\* /api/debug: the counts and the first samples of a decoded feed.
FirstWhere(es, hit) ==
  IF hit = {} THEN Null ELSE es[CHOOSE i \in hit : \A j \in hit : i <= j]

SampleOf(e, k) ==
  IF e = Null THEN Null
  ELSE VObj(StringifyObject(Put(Put(EmptyObj, "id", Get(e, "id")), k, Get(e, k))))

SampleError(e) == IF e = Null THEN Null ELSE [error |-> e["_parseError"]]

DebugBody(raw, f, es, withTU, withVP, errs) ==
  [ bodyBytes |-> Len(raw),
    feedHeader |-> StringifyObject(f.header),
    totalEntities |-> Len(es),
    withTripUpdate |-> Cardinality(withTU),
    withVehiclePosition |-> Cardinality(withVP),
    withBoth |-> Cardinality(withTU \cap withVP),
    parseErrors |-> Cardinality(errs),
    sampleError |-> SampleError(FirstWhere(es, errs)),
    sampleVehicle |-> SampleOf(FirstWhere(es, withVP), "vehicle"),
    sampleTripUpdate |-> SampleOf(FirstWhere(es, withTU), "tripUpdate") ]

DebugOf(raw, f) ==
  DebugBody(raw, f, f.entity,
            {i \in 1..Len(f.entity) : ~IsMarker(f.entity[i]) /\ Present(f.entity[i], "tripUpdate")},
            {i \in 1..Len(f.entity) : ~IsMarker(f.entity[i]) /\ Present(f.entity[i], "vehicle")},
            {i \in 1..Len(f.entity) : IsMarker(f.entity[i])})

\* What the vendor endpoint answers: the fetch throws, or a response of a
\* status and a body, the reading of which ends or fails.
ThreeVehicles == LenField(18, VehicleBody) \o LenField(18, VehicleBody) \o LenField(18, VehicleBody)

UpstreamBodies ==
  { <<>>,
    LenField(18, VehicleBody),
    HeaderBytes \o LenField(18, ShortStrBody) \o LenField(18, TripBody),
    <<19>>,
    ThreeVehicles \o <<18, 128>>,
    LenField(18, RewindBody) }

UpstreamAnswers ==
  {[kind |-> "throws", status |-> 0, body |-> <<>>, readable |-> FALSE, message |-> "fetch failed"]} \cup
  {[kind |-> "response", status |-> s, body |-> b, readable |-> x, message |-> ""] :
     s \in {200, 304, 404, 503}, b \in UpstreamBodies, x \in BOOLEAN}

Secrets == {Undefined, VStr(""), VStr("key-A"), VStr("key-B")}

Requests ==
  {[method |-> m, pathname |-> p] :
     m \in {"GET", "OPTIONS"}, p \in {"/api/gtfs", "/api/debug", "/index.html"}}

InitWorker ==
  /\ request \in Requests
  /\ env \in [Workers -> {[DL_GTFSRT |-> k] : k \in Secrets}]
  /\ upstream \in UpstreamAnswers
  /\ sent = [w \in Workers |-> <<>>]
  /\ responses = [w \in Workers |-> <<>>]
  /\ pc = [w \in Workers |-> "start"]
  /\ buf = [w \in Workers |-> <<>>]
  /\ ret = [w \in Workers |-> NotReturned("none", NoMsg)]
  /\ src = <<>>
  /\ r = NoReader
  /\ feed = FeedInit
  /\ entityErrors = 0
  /\ seen = {}
  /\ stack = <<>>
  /\ last = NoLast
  /\ markers = <<>>
  /\ layers = {}
  /\ runs = <<>>

\* The handler of run w goes to position p, having returned the responses
\* rs (one, or none).
Goes(w, p, rs) ==
  /\ pc' = [pc EXCEPT ![w] = p]
  /\ responses' = [responses EXCEPT ![w] = @ \o rs]
  /\ UNCHANGED <<src, r, feed, entityErrors, seen, stack, last, request, env, upstream,
                 markers, layers, runs>>

Responds(w, resp) == Goes(w, "responded", <<resp>>)

Api == request.method # "OPTIONS" /\ request.pathname \in {"/api/gtfs", "/api/debug"}

\* if (request.method === "OPTIONS") return new Response(null, { headers: CORS });
Options(w) ==
  /\ pc[w] = "start"
  /\ request.method = "OPTIONS"
  /\ Responds(w, Response(200, CORS, Null))
  /\ UNCHANGED <<buf, ret, sent>>

\* if (!env.DL_GTFSRT) return json({ error: ... }, 500);
NotConfigured(w) ==
  /\ pc[w] = "start"
  /\ Api
  /\ ~Configured(env[w])
  /\ Responds(w, json([error |-> IF request.pathname = "/api/gtfs"
                                 THEN "Secret DL_GTFSRT not configured. Run: wrangler secret put DL_GTFSRT"
                                 ELSE "Secret DL_GTFSRT not set"], 500))
  /\ UNCHANGED <<buf, ret, sent>>

\* return env.ASSETS.fetch(request);
Assets(w) ==
  /\ pc[w] = "start"
  /\ request.method # "OPTIONS"
  /\ request.pathname \notin {"/api/gtfs", "/api/debug"}
  /\ Responds(w, Response(200, <<>>, [asset |-> request.pathname]))
  /\ UNCHANGED <<buf, ret, sent>>

\* upResp = await fetch(GTFS_API_URL, { headers: { ... } }): the request is made.
FetchUpstream(w) ==
  /\ pc[w] = "start"
  /\ Api
  /\ Configured(env[w])
  /\ sent' = [sent EXCEPT ![w] = Append(@, UpstreamRequest(env[w]))]
  /\ Goes(w, "fetching", <<>>)
  /\ UNCHANGED <<buf, ret>>

\* The fetch throws: /api/gtfs catches it, /api/debug throws it again.
FetchThrows(w) ==
  /\ pc[w] = "fetching"
  /\ upstream.kind = "throws"
  /\ IF request.pathname = "/api/gtfs"
     THEN Responds(w, json([error |-> "Upstream fetch failed", detail |-> upstream.message], 502))
     ELSE Goes(w, "failed", <<>>)
  /\ UNCHANGED <<buf, ret, sent>>

\* if (!upResp.ok) return json({ error: `De Lijn API ${upResp.status}`,
\*   detail: await upResp.text() }, upResp.status);
\* /api/debug: return json({ error: `upstream ${upResp.status}` }, 502);
NotOk(w) ==
  /\ pc[w] = "fetching"
  /\ upstream.kind = "response"
  /\ ~ok(upstream.status)
  /\ IF request.pathname = "/api/debug"
     THEN Responds(w, json([error |-> <<"upstream", upstream.status>>], 502))
     ELSE IF ~upstream.readable \/ NullBodyStatus(upstream.status)
     THEN Goes(w, "failed", <<>>)
     ELSE Responds(w, json([error |-> <<"De Lijn API", upstream.status>>,
                            detail |-> decode(upstream.body)], upstream.status))
  /\ UNCHANGED <<buf, ret, sent>>

\* const raw = await upResp.arrayBuffer();
ReadBody(w) ==
  /\ pc[w] = "fetching"
  /\ upstream.kind = "response"
  /\ ok(upstream.status)
  /\ buf' = [buf EXCEPT ![w] = IF upstream.readable THEN upstream.body ELSE @]
  /\ Goes(w, IF upstream.readable THEN "read" ELSE "failed", <<>>)
  /\ UNCHANGED <<ret, sent>>

\* if (raw.byteLength === 0) return json({ error: "De Lijn API returned empty body" }, 502);
EmptyBody(w) ==
  /\ pc[w] = "read"
  /\ request.pathname = "/api/gtfs"
  /\ Len(buf[w]) = 0
  /\ Responds(w, json([error |-> "De Lijn API returned empty body"], 502))
  /\ UNCHANGED <<buf, ret, sent>>

\* feed = parseFeedMessage(raw) and what follows it: return json(feed), the
\* response of the catch block, or in /api/debug the counts; a decoder
\* that does not end leaves the request without a response.
DecodeFailed(raw, msg) ==
  json([ error |-> "Protobuf decode failed",
         detail |-> msg,
         bodyBytes |-> Len(raw),
         first32Hex |-> toHex(raw, 32),
         first200Text |-> first200Text(raw) ], 500)

Decoded(w, out) ==
  /\ ret' = [ret EXCEPT ![w] = out]
  /\ IF out.st = "hang" THEN Goes(w, "hang", <<>>)
     ELSE IF request.pathname = "/api/gtfs"
     THEN Responds(w, IF out.st = "ok" THEN json(StringifyFeed(out.v), 200)
                      ELSE DecodeFailed(buf[w], out.msg))
     ELSE IF out.st = "ok" THEN Responds(w, json(DebugOf(buf[w], out.v), 200))
     ELSE Goes(w, "failed", <<>>)

Decode(w) ==
  /\ pc[w] = "read"
  /\ request.pathname = "/api/gtfs" => Len(buf[w]) # 0
  /\ Decoded(w, parseFeedMessage(buf[w]))
  /\ UNCHANGED <<buf, sent>>

NextWorker ==
  \E w \in Workers :
    \/ Options(w) \/ NotConfigured(w) \/ Assets(w) \/ FetchUpstream(w) \/ FetchThrows(w)
    \/ NotOk(w) \/ ReadBody(w) \/ EmptyBody(w) \/ Decode(w)

SpecWorker == InitWorker /\ [][NextWorker]_vars

\* ------------------------------------------------------------------------
\* The decisions of /api/gtfs (specification SpecWorker)
\* ------------------------------------------------------------------------
Gtfs == request.method # "OPTIONS" /\ request.pathname = "/api/gtfs"

\* The response of run w, when there is one.
TheResponse(w) == responses[w][1]

\* The hex preview is that of the first bytes of the body, 32 at most.
HexPreview(hex, raw) ==
  /\ Len(hex) <= 32
  /\ Len(hex) <= Len(raw)
  /\ Len(raw) <= 32 => Len(hex) = Len(raw)
  /\ \A i \in 1..Len(hex) : hex[i] = <<raw[i] \div 16, raw[i] % 16>>

\* The response to a decoder that threw, its keys among those given.
FailureReport(w, keys) ==
  /\ TheResponse(w).status = 500
  /\ DOMAIN TheResponse(w).body.json \subseteq keys
  /\ TheResponse(w).body.json.detail = ret[w].msg
  /\ TheResponse(w).body.json.bodyBytes = Len(upstream.body)
  /\ HexPreview(TheResponse(w).body.json.first32Hex, upstream.body)

\* The response of run w is the one of the first case that applies.
DecidedInOrder(w, keys) ==
  IF ~Configured(env[w]) THEN TheResponse(w).status = 500 /\ sent[w] = <<>>
  ELSE IF upstream.kind = "throws" THEN TheResponse(w).status = 502
  ELSE IF ~ok(upstream.status) THEN TheResponse(w).status = upstream.status
  ELSE IF Len(upstream.body) = 0 THEN TheResponse(w).status = 502 /\ ret[w].st = "none"
  ELSE IF ret[w].st = "throw" THEN FailureReport(w, keys)
  ELSE /\ ret[w].st = "ok"
       /\ TheResponse(w).status = 200
       /\ TheResponse(w).body.json = StringifyFeed(ret[w].v)

Decides(w, keys) ==
  /\ Len(responses[w]) <= 1
  /\ pc[w] \notin {"failed", "hang"}
  /\ pc[w] \in {"start", "fetching", "read"} => Len(responses[w]) = 0
  /\ pc[w] = "responded" => (Len(responses[w]) = 1 /\ DecidedInOrder(w, keys))

\* C26: for a request to /api/gtfs other than OPTIONS the handler returns
\* exactly one response, decided in this order: secret unset, 500 and no
\* request to the vendor; the fetch throws, 502; the response not ok, its
\* status; the body empty, 502 and no call of the decoder; the decoder
\* throws, 500 with the message, the byte count and the hex preview of at
\* most 32 bytes and nothing of the feed; else 200 with the decoded feed.
C26_Decides ==
  Gtfs => \A w \in Workers : Decides(w, {"error", "detail", "bodyBytes", "first32Hex"})

\* The answers of the vendor that reach the handler whole: the body is read
\* to its end, the status is one a response with a body can have, and the
\* decoder ends on the body.
Delivered ==
  upstream.kind = "response" =>
    /\ upstream.readable
    /\ ~NullBodyStatus(upstream.status)
    /\ Alone(upstream.body).st # "hang"

\* C26, for such answers, the report of a decoder that threw carrying also
\* the text of the first 200 bytes of the body.
C26_DecidesDelivered ==
  (Gtfs /\ Delivered) =>
    \A w \in Workers :
      /\ Decides(w, {"error", "detail", "bodyBytes", "first32Hex", "first200Text"})
      /\ (pc[w] = "responded" /\ ret[w].st = "throw") =>
           TheResponse(w).body.json.first200Text = decode(upstream.body)

\* A body of 50 bytes on which the decoder throws: 500, 50 bytes counted,
\* 32 of them in the preview.
C26_Witness ==
  /\ Gtfs
  /\ Delivered
  /\ pc[1] = "responded"
  /\ ret[1].st = "throw"
  /\ upstream.body = ThreeVehicles \o <<18, 128>>
  /\ TheResponse(1).status = 500
  /\ TheResponse(1).body.json.bodyBytes = 50
  /\ Len(TheResponse(1).body.json.first32Hex) = 32

\* The decoder does not end on the body: the request has no response.
NoResponseOnHang ==
  /\ Gtfs
  /\ pc[1] = "hang"
  /\ upstream.body = LenField(18, RewindBody)
  /\ responses[1] = <<>>

\* The vendor answers 304: the handler throws, without a response.
NoResponseOn304 ==
  /\ Gtfs
  /\ pc[1] = "failed"
  /\ upstream.status = 304
  /\ upstream.readable
  /\ responses[1] = <<>>

\* The report of the decoder that threw holds the text of all 50 bytes.
TextBeyondPreview ==
  /\ Gtfs
  /\ pc[1] = "responded"
  /\ ret[1].st = "throw"
  /\ upstream.body = ThreeVehicles \o <<18, 128>>
  /\ Len(TheResponse(1).body.json.first200Text) = 50

\* ------------------------------------------------------------------------
\* The secret (specification SpecWorker)
\* ------------------------------------------------------------------------
Ended(w) == pc[w] \in {"responded", "failed", "hang"}

\* C27: the key is not exposed: two runs of the worker that differ only in
\* the value of DL_GTFSRT, with the same request and the same answer of the
\* vendor, return the same responses and end the same way; the key is in
\* the header Ocp-Apim-Subscription-Key of the request to the vendor, the
\* only request a run makes.
C27_KeyNotExposed ==
  (Configured(env[1]) /\ Configured(env[2])) =>
    /\ (responses[1] # <<>> /\ responses[2] # <<>>) => responses[1] = responses[2]
    /\ (Ended(1) /\ Ended(2)) => (pc[1] = pc[2] /\ Len(responses[1]) = Len(responses[2]))
    /\ \A w \in Workers :
         /\ Len(sent[w]) <= 1
         /\ \A k \in 1..Len(sent[w]) :
              /\ sent[w][k].url = GTFS_API_URL
              /\ sent[w][k].headers["Ocp-Apim-Subscription-Key"] = env[w].DL_GTFSRT.v

\* Two runs with the keys key-A and key-B, each having sent its key to the
\* vendor, have returned the same 200 response.
C27_Witness ==
  /\ Gtfs
  /\ env[1].DL_GTFSRT = VStr("key-A")
  /\ env[2].DL_GTFSRT = VStr("key-B")
  /\ pc[1] = "responded"
  /\ pc[2] = "responded"
  /\ sent[1][1].headers["Ocp-Apim-Subscription-Key"] = "key-A"
  /\ sent[2][1].headers["Ocp-Apim-Subscription-Key"] = "key-B"
  /\ responses[1] = responses[2]
  /\ TheResponse(1).status = 200
  /\ Len(TheResponse(1).body.json.entity) = 2

\* ------------------------------------------------------------------------
\* The browser poller: updateVehicles is started by the page and by every
\* tick of setInterval, whether or not earlier calls have ended.  A step is
\* the code between two awaits; what the server answers is chosen when the
\* answer arrives.
\* ------------------------------------------------------------------------
MaxRuns == 2

\* A value of the payload that is undefined, a string or a number.
JsonUndefined == [t |-> "undefined", s |-> "", n |-> 0]
JsonString(s) == [t |-> "string", s |-> s, n |-> 0]
JsonNumber(n) == [t |-> "number", s |-> "", n |-> n]

\* String(v.id)
String(v) ==
  IF v.t = "undefined" THEN "undefined"
  ELSE IF v.t = "string" THEN v.s
  ELSE IF v.n = 1 THEN "1"
  ELSE IF v.n = 2 THEN "2"
  ELSE "NaN"

\* Entities of a payload: vehicle is absent, or holds id, position (absent,
\* or latitude and longitude) and route_id.
NoVehicle == [vehicle |-> Undefined]
Vehicle(id, position, route) ==
  [vehicle |-> VObj([id |-> id, position |-> position, route_id |-> route])]
At(lat, lng) == VObj([latitude |-> lat, longitude |-> lng])

Payloads ==
  { <<>>,
    <<Vehicle(JsonString("1"), At(50, 4), JsonUndefined)>>,
    <<Vehicle(JsonNumber(1), At(51, 4), JsonString("Tram 7")),
      Vehicle(JsonString("2"), At(50, 5), JsonUndefined)>>,
    <<Vehicle(JsonString("2"), At(51, 5), JsonString("bus")), NoVehicle>>,
    <<Vehicle(JsonString("1"), Undefined, JsonUndefined),
      Vehicle(JsonUndefined, At(50, 4), JsonUndefined)>>,
    <<Vehicle(JsonString("1"), At(50, 4), JsonUndefined),
      Vehicle(JsonString("1"), At(52, 4), JsonUndefined)>>,
    <<Vehicle(JsonString("2"), At(50, 4), JsonUndefined),
      Vehicle(JsonString("1"), At(50, 4), JsonNumber(7))>> }

\* What the server's answer comes to: the fetch throws, a status that is
\* not ok, a body that is not JSON, or a payload.
Answers ==
  {[kind |-> k, payload |-> <<>>] : k \in {"fetch fails", "not ok", "not json"}} \cup
  {[kind |-> "json", payload |-> es] : es \in Payloads}

\* v.route_id?.toLowerCase(): a TypeError for a route_id that is neither
\* undefined nor a string.
IconThrows(v) == v.route_id.t \notin {"undefined", "string"}

\* The marker on the map for a vehicle.
MarkerOf(v) == [latlng |-> <<v.position.v.latitude, v.position.v.longitude>>]

\* markers.has(id) ? markers.get(id).setLatLng(latlng) : markers.set(id, m)
Moved(ms, id, v) == [k \in DOMAIN ms \cup {id} |-> IF k = id THEN MarkerOf(v) ELSE ms[k]]

\* payload.entity.forEach(e => { ... }): the markers, the layers of the map
\* and seen after the entities from k on, or at the entity that throws.
RECURSIVE ForEach(_, _, _, _, _)
ForEach(es, k, ms, ls, ids) ==
  IF k > Len(es) THEN [st |-> "ok", markers |-> ms, layers |-> ls, seen |-> ids]
  ELSE IF es[k].vehicle.t = "undefined" \/ es[k].vehicle.v.position.t = "undefined"
  THEN ForEach(es, k + 1, ms, ls, ids)
  ELSE IF IconThrows(es[k].vehicle.v)
  THEN [st |-> "throw", markers |-> ms, layers |-> ls, seen |-> ids]
  ELSE ForEach(es, k + 1,
               Moved(ms, String(es[k].vehicle.v.id), es[k].vehicle.v),
               ls \cup {String(es[k].vehicle.v.id)},
               ids \cup {String(es[k].vehicle.v.id)})

\* No marker is removed.
NotRemoved(res) == res

\* for (const id of markers.keys()) if (!seen.has(id)) { map.removeLayer(...);
\*   markers.delete(id); }
Removed(res) ==
  IF res.st = "throw" THEN res
  ELSE [res EXCEPT !.markers = [k \in DOMAIN res.markers \cap res.seen |-> res.markers[k]],
                   !.layers = res.layers \cap res.seen]

InitPoller ==
  /\ markers = <<>>
  /\ layers = {}
  /\ runs = <<>>
  /\ request = [method |-> "", pathname |-> ""]
  /\ env = [DL_GTFSRT |-> ""]
  /\ upstream = [kind |-> "none"]
  /\ sent = <<>>
  /\ responses = <<>>
  /\ src = <<>>
  /\ buf = <<>>
  /\ pc = "page"
  /\ r = NoReader
  /\ feed = FeedInit
  /\ entityErrors = 0
  /\ seen = {}
  /\ ret = NotReturned("none", NoMsg)
  /\ stack = <<>>
  /\ last = NoLast

Rest ==
  UNCHANGED <<src, buf, pc, r, feed, entityErrors, seen, ret, stack, last,
              request, env, upstream, sent, responses>>

\* The runs that have ended.
Settled == {i \in 1..Len(runs) : runs[i].pc \in {"done", "failed", "threw"}}

\* Run i ends as p, after the runs that have ended.
Ends(i, p, a) ==
  runs' = [runs EXCEPT ![i] = [pc |-> p, answer |-> a, turn |-> Cardinality(Settled) + 1]]

\* updateVehicles(): const res = await fetch('/api/buses', { cache: 'no-store' });
Start ==
  /\ Len(runs) < MaxRuns
  /\ runs' = Append(runs, [pc |-> "fetch", answer |-> [kind |-> "none", payload |-> <<>>], turn |-> 0])
  /\ UNCHANGED <<markers, layers>>
  /\ Rest

\* The fetch throws, or if (!res.ok) throw new Error(...): the catch block.
FetchFails(i) ==
  /\ i <= Len(runs)
  /\ runs[i].pc = "fetch"
  /\ \E a \in {b \in Answers : b.kind \in {"fetch fails", "not ok"}} : Ends(i, "failed", a)
  /\ UNCHANGED <<markers, layers>>
  /\ Rest

\* res.ok: const payload = await res.json();
FetchResolves(i) ==
  /\ i <= Len(runs)
  /\ runs[i].pc = "fetch"
  /\ runs' = [runs EXCEPT ![i].pc = "json"]
  /\ UNCHANGED <<markers, layers>>
  /\ Rest

\* res.json() rejects: the catch block.
JsonFails(i) ==
  /\ i <= Len(runs)
  /\ runs[i].pc = "json"
  /\ Ends(i, "failed", [kind |-> "not json", payload |-> <<>>])
  /\ UNCHANGED <<markers, layers>>
  /\ Rest

\* The payload is there: lines 24 to 49, in one piece.
Updated(i, a, res) ==
  /\ markers' = res.markers
  /\ layers' = res.layers
  /\ Ends(i, IF res.st = "ok" THEN "done" ELSE "threw", a)

Update(i) ==
  /\ i <= Len(runs)
  /\ runs[i].pc = "json"
  /\ \E a \in {b \in Answers : b.kind = "json"} :
       Updated(i, a, Removed(ForEach(a.payload, 1, markers, layers, {})))
  /\ Rest

NextPoller ==
  \/ Start
  \/ \E i \in 1..MaxRuns : FetchFails(i) \/ FetchResolves(i) \/ JsonFails(i) \/ Update(i)

SpecPoller == InitPoller /\ [][NextPoller]_vars

\* ------------------------------------------------------------------------
\* The markers after a run (specification SpecPoller)
\* ------------------------------------------------------------------------
\* The entities of a payload that have a vehicle with a position, and their
\* ids as strings.
Shown(es) ==
  {k \in 1..Len(es) : es[k].vehicle.t # "undefined" /\ es[k].vehicle.v.position.t # "undefined"}
IdsOf(es) == {String(es[k].vehicle.v.id) : k \in Shown(es)}
LastOf(es, id) ==
  CHOOSE k \in Shown(es) :
    /\ String(es[k].vehicle.v.id) = id
    /\ \A j \in Shown(es) : String(es[j].vehicle.v.id) = id => j <= k

Becomes(i, p) == i <= Len(runs) /\ runs[i].pc # p /\ runs'[i].pc = p

\* C28: a run of updateVehicles that completes without error leaves as the
\* keys of markers exactly the String(vehicle.id) of the entities of its
\* payload that have a vehicle with a position, each marker at the position
\* the payload gives and on the map, every other marker gone from the map
\* and from markers; a run whose fetch fails, whose response is not ok or is
\* not JSON leaves markers and the map as they were.
C28_MarkersFollow ==
  [][\A i \in 1..MaxRuns :
       /\ Becomes(i, "done") =>
            /\ DOMAIN markers' = IdsOf(runs'[i].answer.payload)
            /\ layers' = DOMAIN markers'
            /\ \A id \in DOMAIN markers' :
                 markers'[id] =
                   MarkerOf(runs'[i].answer.payload[LastOf(runs'[i].answer.payload, id)].vehicle.v)
       /\ Becomes(i, "failed") =>
            /\ runs'[i].answer.kind \in {"fetch fails", "not ok", "not json"}
            /\ markers' = markers
            /\ layers' = layers]_vars

\* After a run that showed the vehicles 1 and 2, a run whose payload has
\* vehicle 2 alone, elsewhere: one marker, moved.
C28_Witness ==
  /\ Len(runs) = 2
  /\ runs[1].pc = "done"
  /\ runs[1].turn = 1
  /\ IdsOf(runs[1].answer.payload) = {"1", "2"}
  /\ runs[2].pc = "done"
  /\ runs[2].turn = 2
  /\ runs[2].answer.payload = <<Vehicle(JsonString("2"), At(51, 5), JsonString("bus")), NoVehicle>>
  /\ DOMAIN markers = {"2"}
  /\ markers["2"].latlng = <<51, 5>>
  /\ layers = {"2"}

\* A payload whose second vehicle has the route_id 7: the run ends in the
\* catch block with the marker of the first vehicle added.
ThrewHalfway ==
  /\ Len(runs) = 1
  /\ runs[1].pc = "threw"
  /\ DOMAIN markers = {"2"}

\* ------------------------------------------------------------------------
\* Overlapping runs (specification SpecPoller)
\* ------------------------------------------------------------------------
\* No run is waiting for its answer.
NoneOutstanding == runs # <<>> /\ Settled = 1..Len(runs)

\* The markers are those of the payload of run i.
ShowsRun(i) ==
  /\ DOMAIN markers = IdsOf(runs[i].answer.payload)
  /\ layers = DOMAIN markers
  /\ \A id \in DOMAIN markers :
       markers[id] = MarkerOf(runs[i].answer.payload[LastOf(runs[i].answer.payload, id)].vehicle.v)

\* The runs ended in the order they were started.
InOrderOfIssue == \A i, j \in Settled : i < j => runs[i].turn < runs[j].turn

\* The run that ended last.
Latest == CHOOSE i \in Settled : runs[i].turn = Cardinality(Settled)

\* C29: under every interleaving of overlapping runs, once no response is
\* outstanding the markers are those of the request issued last, and the
\* response to an older request is never applied after that to a newer one.
C29_NewestWins ==
  /\ \A i, j \in 1..Len(runs) :
       (i < j /\ runs[i].pc = "done" /\ runs[j].pc = "done") => runs[i].turn < runs[j].turn
  /\ (NoneOutstanding /\ runs[Len(runs)].pc = "done") => ShowsRun(Len(runs))

\* C29, for what holds: the markers are those of the response applied
\* last; they are those of the request issued last when the runs ended in
\* the order of issue.
C29_LastAppliedWins ==
  /\ (Settled # {} /\ runs[Latest].pc = "done") => ShowsRun(Latest)
  /\ (NoneOutstanding /\ InOrderOfIssue /\ runs[Len(runs)].pc = "done") => ShowsRun(Len(runs))

\* Two overlapping runs ended in the order of issue: the markers are those
\* of the second.
C29_Witness ==
  /\ Len(runs) = 2
  /\ NoneOutstanding
  /\ InOrderOfIssue
  /\ runs[1].pc = "done"
  /\ runs[2].pc = "done"
  /\ runs[1].answer.payload = <<Vehicle(JsonString("1"), At(50, 4), JsonUndefined)>>
  /\ IdsOf(runs[2].answer.payload) = {"1", "2"}
  /\ ShowsRun(2)
  /\ DOMAIN markers = {"1", "2"}

\* The response to the first request is applied after that to the second:
\* the map shows vehicle 1 of the first payload, not vehicle 2 of the second.
OlderOverwrites ==
  /\ Len(runs) = 2
  /\ NoneOutstanding
  /\ runs[2].turn = 1
  /\ runs[1].turn = 2
  /\ runs[1].answer.payload = <<Vehicle(JsonString("1"), At(50, 4), JsonUndefined)>>
  /\ runs[2].answer.payload = <<Vehicle(JsonString("2"), At(51, 5), JsonString("bus")), NoVehicle>>
  /\ DOMAIN markers = {"1"}

====
